---- MODULE Spec2Model ----
(***************************************************************************)
(* Sokoban search solver: the map loader, the board state and its          *)
(* successor function with the push-time deadlock oracle, the five         *)
(* frontier strategies (BFS, DFS, IDDFS, Greedy, A* ) and the search        *)
(* engine with its two closed-set disciplines.                             *)
(*                                                                         *)
(* Positions are <<row, col>> pairs, rows and columns counted from 0 as    *)
(* the loader's enumerate() does.  A board state is the record             *)
(* [player_pos, boxes]; walls and goals are shared by every state of one   *)
(* puzzle and are variables of the model.  Search nodes live in the arena  *)
(* `nodes`; a node is named by its index, parent 0 is Python's None.       *)
(***************************************************************************)
EXTENDS Integers, Sequences, FiniteSets, TLC

VARIABLES
    map_file,           \* the lines of the map file the run was started on
    algorithm,          \* the strategy object handed to SearchEngine (its fields)
    heuristic,          \* the heuristic handed to SearchEngine, "NONE" for None
    pc,                 \* "load", "ready", "without_cache", "with_cache", "done", "error"
    walls,              \* SokobanState.walls
    goals,              \* SokobanState.goals
    initial_state,      \* the state MapLoader returned
    nodes,              \* arena of the StateNode objects created by the search
    closed,             \* closed_states / closed_set of the running loop
    best_costs,         \* best_costs of the cost-caching loop (state -> g)
    nodes_expanded,     \* SearchEngine.nodes_expanded
    max_frontier_size,  \* SearchEngine.max_frontier_size
    result,             \* the SearchResult returned, or the record of "none"
    returned,           \* history: the node handed to _create_success_from_node
    pushed,             \* history: the nodes handed to algorithm.add, in order
    heur_evals,         \* history: number of heuristic.calculate calls
    cur,                \* the state a walk over successors stands on
    expanded_nodes,     \* history: the nodes whose successors were generated, in order
    pruning,            \* the "pruning" key of the configuration file, read by no code
    exit_code,          \* the exit code of the solver command, -1 while it runs
    h_values,           \* the values the heuristics returned for the state cur
    oracle,             \* the position the two deadlock oracles were asked about, and
                        \* what they answered
    first_result,       \* the result of the first search() call made on the engine
    _aisle_cache,       \* DeadlockDetector._aisle_cache: (walls, goals) -> pruned cells
    cache_keys,         \* the (walls, goals) pairs the oracle is queried with
    callers             \* the calls of _get_aisle_pruned_cells under way, one per thread

vars == <<map_file, algorithm, heuristic, pc, walls, goals, initial_state, nodes,
          closed, best_costs, nodes_expanded, max_frontier_size, result,
          returned, pushed, heur_evals, cur, expanded_nodes,
          pruning, exit_code, h_values,
          oracle, first_result, _aisle_cache, cache_keys, callers>>

-----------------------------------------------------------------------------
(* Bounds and program constants *)

\* number of maps of the list Maps a run may be started on
NumMaps == 13

\* width of the one-row maps a walk over successors may be started on
GridCols == 4

\* IDDFS._INITIAL_DEPTH_LIMIT
INITIAL_DEPTH_LIMIT == 50

\* IDDFS._DEPTH_INCREMENT
DEPTH_INCREMENT == 5

\* number of decimal places the Euclidean distances are carried with
SqrtPlaces == 4

\* number of cells inside the wall of the boards the heuristics are applied on, and
\* the number of columns they are laid out in
BoardCells == 5

BoardWidth == 3

\* number of search() calls made on one engine, and number of maps of the list Maps
\* an engine that is used again is run on
MaxSearches == 2

ReuseMaps == 6

\* number of threads that query the deadlock oracle at the same time, and number of
\* maps of the list Maps whose (walls, goals) they query it with
NumThreads == 2

NumKeys == 2

-----------------------------------------------------------------------------
(* Map files: one sequence of characters per line *)

\* S1 - trivial push: ##### / #@$.# / #####
MapS1 ==
    << <<"#", "#", "#", "#", "#">>,
       <<"#", "@", "$", ".", "#">>,
       <<"#", "#", "#", "#", "#">> >>

\* S2 - two-step push: ###### / #@ $.# / ######
MapS2 ==
    << <<"#", "#", "#", "#", "#", "#">>,
       <<"#", "@", " ", "$", ".", "#">>,
       <<"#", "#", "#", "#", "#", "#">> >>

\* S3 - corner beside the push: #### / #@ # / # $# / #  # / # .# / ####
MapS3 ==
    << <<"#", "#", "#", "#">>,
       <<"#", "@", " ", "#">>,
       <<"#", " ", "$", "#">>,
       <<"#", " ", " ", "#">>,
       <<"#", " ", ".", "#">>,
       <<"#", "#", "#", "#">> >>

\* S5 - box in a non-goal corner, no solution: #### / #$ # / #@.# / ####
MapS5 ==
    << <<"#", "#", "#", "#">>,
       <<"#", "$", " ", "#">>,
       <<"#", "@", ".", "#">>,
       <<"#", "#", "#", "#">> >>

\* S6 - already solved: ### / #*# / #@# / ###
MapS6 ==
    << <<"#", "#", "#">>,
       <<"#", "*", "#">>,
       <<"#", "@", "#">>,
       <<"#", "#", "#">> >>

\* the box has to pass cells beside a wall whose row or column holds no goal: ##### / #@  # / # $ # / ##  # / #.  # / #####
MapTurn ==
    << <<"#", "#", "#", "#", "#">>,
       <<"#", "@", " ", " ", "#">>,
       <<"#", " ", "$", " ", "#">>,
       <<"#", "#", " ", " ", "#">>,
       <<"#", ".", " ", " ", "#">>,
       <<"#", "#", "#", "#", "#">> >>

\* two boxes, player on a goal: ######## / ##     # / #. $ $ # / ###+   # / ########
MapTwoBoxes ==
    << <<"#", "#", "#", "#", "#", "#", "#", "#">>,
       <<"#", "#", " ", " ", " ", " ", " ", "#">>,
       <<"#", ".", " ", "$", " ", "$", " ", "#">>,
       <<"#", "#", "#", "+", " ", " ", " ", "#">>,
       <<"#", "#", "#", "#", "#", "#", "#", "#">> >>

\* a box on a goal at the mouth of a dead end, a second box one push from its goal:
\* ######## / #  *@$.# / ########
MapAisle ==
    << <<"#", "#", "#", "#", "#", "#", "#", "#">>,
       <<"#", " ", " ", "*", "@", "$", ".", "#">>,
       <<"#", "#", "#", "#", "#", "#", "#", "#">> >>

\* no player: the loader raises: ##### / # $.# / #####
MapNoPlayer ==
    << <<"#", "#", "#", "#", "#">>,
       <<"#", " ", "$", ".", "#">>,
       <<"#", "#", "#", "#", "#">> >>

\* unknown character: the loader raises: ##### / #@$x# / #####
MapBadChar ==
    << <<"#", "#", "#", "#", "#">>,
       <<"#", "@", "$", "x", "#">>,
       <<"#", "#", "#", "#", "#">> >>

\* one box, two goals: the loader raises: ##### / #@$ # / #. .# / #####
MapCount ==
    << <<"#", "#", "#", "#", "#">>,
       <<"#", "@", "$", " ", "#">>,
       <<"#", ".", " ", ".", "#">>,
       <<"#", "#", "#", "#", "#">> >>

\* push to the left: ##### / #.$@# / #####
MapExtra ==
    << <<"#", "#", "#", "#", "#">>,
       <<"#", ".", "$", "@", "#">>,
       <<"#", "#", "#", "#", "#">> >>


Spaces(n) == [i \in 1..n |-> " "]

WallRow(n) == [i \in 1..n |-> "#"]

\* a corridor one cell longer than the first IDDFS depth limit before the push
MapLong ==
    LET row == <<"#", "@">> \o Spaces(INITIAL_DEPTH_LIMIT + 1) \o <<"$", ".", "#">>
    IN  << WallRow(Len(row)), row, WallRow(Len(row)) >>

\* a corridor behind a cornered box, longer than the second IDDFS depth limit
MapLongDead ==
    LET row == <<"#", "$", "@">> \o Spaces(INITIAL_DEPTH_LIMIT + DEPTH_INCREMENT + 1)
                   \o <<".", "#">>
    IN  << WallRow(Len(row)), row, WallRow(Len(row)) >>

\* a corridor as long as the first IDDFS depth limit that ends in a crossing, so that
\* the node at the limit has several successors
MapLongFork ==
    LET row  == <<"#", "@">> \o Spaces(INITIAL_DEPTH_LIMIT) \o <<"$", ".", "#">>
        side == WallRow(INITIAL_DEPTH_LIMIT + 1) \o <<" ">> \o WallRow(3)
    IN  << WallRow(Len(row)), side, row, side, WallRow(Len(row)) >>

Maps == << MapS1, MapS2, MapS3, MapS5, MapS6, MapTurn, MapTwoBoxes, MapLong,
           MapLongDead, MapAisle, MapNoPlayer, MapBadChar, MapCount, MapExtra >>

-----------------------------------------------------------------------------
(* MapLoader._parse_lines *)

TileChars == {"#", "@", "$", ".", " ", "*", "+"}

\* the (row, col) pairs enumerate() visits
Cells(lines) ==
    UNION { { <<row - 1, col - 1>> : col \in 1..Len(lines[row]) } : row \in 1..Len(lines) }

CharAt(lines, pos) == lines[pos[1] + 1][pos[2] + 1]

TilesOf(lines, chars) == { pos \in Cells(lines) : CharAt(lines, pos) \in chars }

\* lexicographic order on positions (Python's tuple order)
PosLess(a, b) == a[1] < b[1] \/ (a[1] = b[1] /\ a[2] < b[2])

\* player_pos is overwritten by every player tile met: the last one in scan order stays
LastPlayer(lines) ==
    LET ps == TilesOf(lines, {"@", "+"})
    IN  CHOOSE p \in ps : \A q \in ps : q = p \/ PosLess(q, p)

\* the ValueError cases of _parse_lines
ParseError(lines) ==
    \/ \E pos \in Cells(lines) : CharAt(lines, pos) \notin TileChars
    \/ TilesOf(lines, {"@", "+"}) = {}
    \/ TilesOf(lines, {"$", "*"}) = {}
    \/ TilesOf(lines, {".", "*", "+"}) = {}
    \/ Cardinality(TilesOf(lines, {"$", "*"})) # Cardinality(TilesOf(lines, {".", "*", "+"}))

ParsedWalls(lines) == TilesOf(lines, {"#"})

ParsedGoals(lines) == TilesOf(lines, {".", "*", "+"})

ParsedState(lines) ==
    [player_pos |-> LastPlayer(lines), boxes |-> TilesOf(lines, {"$", "*"})]

-----------------------------------------------------------------------------
(* DeadlockDetector of core/state.py: the oracle get_successors consults *)

_is_corner_deadlock(pos, W, G) ==
    LET r == pos[1]
        c == pos[2]
    IN  /\ pos \notin G
        /\ \/ <<r - 1, c>> \in W /\ <<r, c - 1>> \in W
           \/ <<r - 1, c>> \in W /\ <<r, c + 1>> \in W
           \/ <<r + 1, c>> \in W /\ <<r, c - 1>> \in W
           \/ <<r + 1, c>> \in W /\ <<r, c + 1>> \in W

Min2(a, b) == IF a <= b THEN a ELSE b

Max2(a, b) == IF a >= b THEN a ELSE b

_has_clear_horizontal_path(start, end, W) ==
    \A c \in Min2(start[2], end[2])..Max2(start[2], end[2]) : <<start[1], c>> \notin W

_has_clear_vertical_path(start, end, W) ==
    \A r \in Min2(start[1], end[1])..Max2(start[1], end[1]) : <<r, start[2]>> \notin W

_is_wall_deadlock(pos, W, G) ==
    LET r == pos[1]
        c == pos[2]
        row_goals == { g \in G : g[1] = r }
        col_goals == { g \in G : g[2] = c }
    IN  IF <<r - 1, c>> \in W \/ <<r + 1, c>> \in W
        THEN ~ \E goal \in row_goals : _has_clear_horizontal_path(pos, goal, W)
        ELSE IF <<r, c - 1>> \in W \/ <<r, c + 1>> \in W
        THEN ~ \E goal \in col_goals : _has_clear_vertical_path(pos, goal, W)
        ELSE FALSE

_is_square_deadlock(pos, boxes, G) ==
    LET r == pos[1]
        c == pos[2]
        squares == { { <<r, c>>, <<r, c + 1>>, <<r + 1, c>>, <<r + 1, c + 1>> },
                     { <<r - 1, c - 1>>, <<r - 1, c>>, <<r, c - 1>>, <<r, c>> },
                     { <<r - 1, c>>, <<r - 1, c + 1>>, <<r, c>>, <<r, c + 1>> },
                     { <<r, c - 1>>, <<r, c>>, <<r + 1, c - 1>>, <<r + 1, c>> } }
    IN  \E square \in squares : square \subseteq boxes /\ square \cap G = {}

is_deadlock(box_pos, boxes, W, G) ==
    \/ _is_corner_deadlock(box_pos, W, G)
    \/ _is_wall_deadlock(box_pos, W, G)
    \/ _is_square_deadlock(box_pos, boxes, G)

-----------------------------------------------------------------------------
(* DeadlockDetector of heuristics/deadlock.py: the oracle of the DEADLOCK heuristic *)

\* np.inf, as a value above every finite value a heuristic returns in the model
np_inf == 1000000

\* variant: the corner test without its early return for a goal cell
Heuristic_is_corner_deadlock_goal_unchecked(pos, W, G) ==
    LET r == pos[1]
        c == pos[2]
    IN  \/ <<r - 1, c>> \in W /\ <<r, c - 1>> \in W
        \/ <<r - 1, c>> \in W /\ <<r, c + 1>> \in W
        \/ <<r + 1, c>> \in W /\ <<r, c - 1>> \in W
        \/ <<r + 1, c>> \in W /\ <<r, c + 1>> \in W

\* DeadlockDetector._is_corner_deadlock (D1)
Heuristic_is_corner_deadlock(pos, W, G) ==
    LET r == pos[1]
        c == pos[2]
    IN  IF pos \in G THEN FALSE
        ELSE \/ <<r - 1, c>> \in W /\ <<r, c - 1>> \in W
             \/ <<r - 1, c>> \in W /\ <<r, c + 1>> \in W
             \/ <<r + 1, c>> \in W /\ <<r, c - 1>> \in W
             \/ <<r + 1, c>> \in W /\ <<r, c + 1>> \in W

\* DeadlockDetector._is_square_deadlock (D2)
Heuristic_is_square_deadlock(pos, boxes, G) ==
    LET r == pos[1]
        c == pos[2]
        squares == { { <<r, c>>, <<r, c + 1>>, <<r + 1, c>>, <<r + 1, c + 1>> },
                     { <<r - 1, c - 1>>, <<r - 1, c>>, <<r, c - 1>>, <<r, c>> },
                     { <<r - 1, c>>, <<r - 1, c + 1>>, <<r, c>>, <<r, c + 1>> },
                     { <<r, c - 1>>, <<r, c>>, <<r + 1, c - 1>>, <<r + 1, c>> } }
    IN  \E square \in squares : square \subseteq boxes /\ square \cap G = {}

\* DeadlockDetector._bounds: (min_r, max_r, min_c, max_c) of the walls and goals
_bounds(W, G) ==
    LET points == W \cup G
        rs == { p[1] : p \in points }
        cs == { p[2] : p \in points }
    IN  IF points = {} THEN <<0, 0, 0, 0>>
        ELSE << CHOOSE x \in rs : \A y \in rs : x <= y,
                CHOOSE x \in rs : \A y \in rs : x >= y,
                CHOOSE x \in cs : \A y \in cs : x <= y,
                CHOOSE x \in cs : \A y \in cs : x >= y >>

\* one of the two while loops of row_segment_no_door, walking by step (-1 left, +1
\* right) from column col: where the loop stops, or out when it returns False
RECURSIVE RowScan(_, _, _, _, _, _)
RowScan(row, col, wall_row_offset, step, W, G) ==
    IF <<row + wall_row_offset, col>> \notin W THEN [out |-> FALSE, at |-> col]
    ELSE IF <<row, col + step>> \in W THEN [out |-> FALSE, at |-> col]
    ELSE IF step < 0 /\ col + step < _bounds(W, G)[3] - 2 THEN [out |-> TRUE, at |-> col]
    ELSE IF step > 0 /\ col + step > _bounds(W, G)[4] + 2 THEN [out |-> TRUE, at |-> col]
    ELSE RowScan(row, col + step, wall_row_offset, step, W, G)

\* row_segment_no_door of _is_between_corners_no_door
row_segment_no_door(row, col_start, wall_row_offset, W, G) ==
    LET left  == RowScan(row, col_start, wall_row_offset, -1, W, G)
        right == RowScan(row, col_start, wall_row_offset, 1, W, G)
    IN  IF left.out \/ right.out THEN FALSE
        ELSE \A cc \in left.at..right.at : <<row, cc>> \notin G

\* one of the two `while True` loops of col_segment_doorless, walking by step (-1 up,
\* +1 down) from row r
RECURSIVE ColScan(_, _, _, _, _, _)
ColScan(col, r, adj_col_delta, step, W, G) ==
    IF <<r, col + adj_col_delta>> \notin W THEN [out |-> TRUE, at |-> r]
    ELSE IF <<r + step, col>> \in W THEN [out |-> FALSE, at |-> r]
    ELSE IF step < 0 /\ r + step < _bounds(W, G)[1] - 2 THEN [out |-> TRUE, at |-> r]
    ELSE IF step > 0 /\ r + step > _bounds(W, G)[2] + 2 THEN [out |-> TRUE, at |-> r]
    ELSE ColScan(col, r + step, adj_col_delta, step, W, G)

\* col_segment_doorless of _is_between_corners_no_door
col_segment_doorless(col, row_start, adj_col_delta, W, G) ==
    LET up   == ColScan(col, row_start, adj_col_delta, -1, W, G)
        down == ColScan(col, row_start, adj_col_delta, 1, W, G)
    IN  IF up.out \/ down.out THEN FALSE
        ELSE \A rr \in up.at..down.at : <<rr, col>> \notin G

\* DeadlockDetector._is_between_corners_no_door (D3)
_is_between_corners_no_door(pos, W, G) ==
    LET r == pos[1]
        c == pos[2]
    IN  \/ <<r - 1, c>> \in W /\ row_segment_no_door(r, c, -1, W, G)
        \/ <<r + 1, c>> \in W /\ row_segment_no_door(r, c, 1, W, G)
        \/ <<r, c - 1>> \in W /\ col_segment_doorless(c, r, -1, W, G)
        \/ <<r, c + 1>> \in W /\ col_segment_doorless(c, r, 1, W, G)

\* is_blocked_neighbor of _get_aisle_pruned_cells; b is (min_r, max_r, min_c, max_c), computed
\* once by the enclosing function
is_blocked_neighbor(pos, blocked, b) ==
    \/ pos[1] < b[1]
    \/ pos[1] > b[2]
    \/ pos[2] < b[3]
    \/ pos[2] > b[4]
    \/ pos \in blocked

\* variant: the loop body is run once, the cells it adds are not looked at again
AisleLoop_one_pass(blocked, W, G) ==
    LET b      == _bounds(W, G)
        floor  == ((b[1]..b[2]) \X (b[3]..b[4])) \ W
        to_add == { p \in floor :
                      /\ p \notin blocked
                      /\ p \notin G
                      /\ Cardinality({ d \in { <<-1, 0>>, <<1, 0>>, <<0, -1>>, <<0, 1>> } :
                             is_blocked_neighbor(<<p[1] + d[1], p[2] + d[2]>>,
                                                 blocked, b) }) >= 3 }
    IN  blocked \cup to_add

\* the `while changed` loop of _get_aisle_pruned_cells: the blocked set it ends with
RECURSIVE AisleLoop(_, _, _)
AisleLoop(blocked, W, G) ==
    LET b      == _bounds(W, G)
        floor  == ((b[1]..b[2]) \X (b[3]..b[4])) \ W
        to_add == { p \in floor :
                      /\ p \notin blocked
                      /\ p \notin G
                      /\ Cardinality({ d \in { <<-1, 0>>, <<1, 0>>, <<0, -1>>, <<0, 1>> } :
                             is_blocked_neighbor(<<p[1] + d[1], p[2] + d[2]>>,
                                                 blocked, b) }) >= 3 }
    IN  IF to_add = {} THEN blocked ELSE AisleLoop(blocked \cup to_add, W, G)

\* DeadlockDetector._get_aisle_pruned_cells: the value computed for the key (walls,
\* goals), which is also the value a later call finds in _aisle_cache
_get_aisle_pruned_cells(W, G) == AisleLoop(W, W, G) \ W

\* DeadlockDetector._is_aisle_end_cell (D4)
_is_aisle_end_cell(pos, W, G) == pos \in _get_aisle_pruned_cells(W, G)

\* DeadlockDetector.is_deadlock of the heuristic
Heuristic_is_deadlock(box_pos, boxes, W, G) ==
    \/ Heuristic_is_corner_deadlock(box_pos, W, G)
    \/ Heuristic_is_square_deadlock(box_pos, boxes, G)
    \/ _is_between_corners_no_door(box_pos, W, G)
    \/ _is_aisle_end_cell(box_pos, W, G) /\ box_pos \notin G

-----------------------------------------------------------------------------
(* SokobanState *)

is_goal(state) == state.boxes = goals

\* variant: the labels of the two horizontal directions exchanged
directions_swapped ==
    << <<-1, 0, "UP">>, <<1, 0, "DOWN">>, <<0, -1, "RIGHT">>, <<0, 1, "LEFT">> >>

\* (dr, dc, action) in the order the loop of get_successors takes them
directions == << <<-1, 0, "UP">>, <<1, 0, "DOWN">>, <<0, -1, "LEFT">>, <<0, 1, "RIGHT">> >>

\* the cell the player enters
new_player_pos(state, d) == <<state.player_pos[1] + d[1], state.player_pos[2] + d[2]>>

\* variant: the box lands one cell too far
new_box_pos_far(state, d) ==
    <<state.player_pos[1] + 3 * d[1], state.player_pos[2] + 3 * d[2]>>

\* the cell a pushed box enters
new_box_pos(state, d) == <<state.player_pos[1] + 2 * d[1], state.player_pos[2] + 2 * d[2]>>

\* the oracle call of get_successors: the destination cell with the boxes before the push
PushIsDeadlock(state, d) == is_deadlock(new_box_pos(state, d), state.boxes, walls, goals)

\* variant: the destination of the box is not tested against the walls
SuccessorsIn_wall_unchecked(state, d) ==
    IF new_player_pos(state, d) \in walls THEN <<>>
    ELSE IF new_player_pos(state, d) \in state.boxes
    THEN IF new_box_pos(state, d) \in state.boxes
         THEN <<>>
         ELSE << [state  |-> [player_pos |-> new_player_pos(state, d),
                              boxes |-> (state.boxes \ {new_player_pos(state, d)})
                                            \cup {new_box_pos(state, d)}],
                  action |-> d[3] \o "_PUSH"] >>
    ELSE << [state  |-> [player_pos |-> new_player_pos(state, d), boxes |-> state.boxes],
             action |-> d[3]] >>

\* one pass of the loop body: the successors appended for direction d (none or one)
SuccessorsIn(state, d) ==
    IF new_player_pos(state, d) \in walls THEN <<>>
    ELSE IF new_player_pos(state, d) \in state.boxes
    THEN IF new_box_pos(state, d) \in walls \/ new_box_pos(state, d) \in state.boxes
         THEN <<>>
         ELSE IF PushIsDeadlock(state, d) THEN <<>>
         ELSE << [state  |-> [player_pos |-> new_player_pos(state, d),
                              boxes |-> (state.boxes \ {new_player_pos(state, d)})
                                            \cup {new_box_pos(state, d)}],
                  action |-> d[3] \o "_PUSH"] >>
    ELSE << [state  |-> [player_pos |-> new_player_pos(state, d), boxes |-> state.boxes],
             action |-> d[3]] >>

get_successors(state) ==
    SuccessorsIn(state, directions[1]) \o SuccessorsIn(state, directions[2])
        \o SuccessorsIn(state, directions[3]) \o SuccessorsIn(state, directions[4])

-----------------------------------------------------------------------------
(* Heuristics *)

Abs(x) == IF x < 0 THEN -x ELSE x

\* np.abs(goal - box).sum()
L1(a, b) == Abs(a[1] - b[1]) + Abs(a[2] - b[2])

\* variant: the distance to the farthest goal
NearestGoal_farthest(box, G) ==
    LET dists == { L1(box, g) : g \in G }
    IN  CHOOSE d \in dists : \A e \in dists : d >= e

\* dist.min() over the goals
NearestGoal(box, G) ==
    LET dists == { L1(box, g) : g \in G }
    IN  CHOOSE d \in dists : \A e \in dists : d <= e

RECURSIVE SumNearest(_, _)
SumNearest(boxes, G) ==
    IF boxes = {} THEN 0
    ELSE LET box == CHOOSE b \in boxes : TRUE
         IN  NearestGoal(box, G) + SumNearest(boxes \ {box}, G)

\* ManhattanHeuristic.calculate
Manhattan_calculate(state) == SumNearest(state.boxes, goals)

\* list(frozenset): the enumeration order of a set of positions is fixed by the
\* interpreter's hash layout; it is taken here to be the lexicographic order
RECURSIVE ListOf(_)
ListOf(S) ==
    IF S = {} THEN <<>>
    ELSE LET m == CHOOSE x \in S : \A y \in S : y = x \/ PosLess(x, y)
         IN  <<m>> \o ListOf(S \ {m})

\* np.argmin of the flattened matrix: the first smallest entry in row-major order
ArgMin(bs, gs, rows, cols) ==
    CHOOSE p \in rows \X cols :
        \A q \in rows \X cols :
            \/ L1(bs[p[1]], gs[p[2]]) < L1(bs[q[1]], gs[q[2]])
            \/ /\ L1(bs[p[1]], gs[p[2]]) = L1(bs[q[1]], gs[q[2]])
               /\ (p = q \/ p[1] < q[1] \/ (p[1] = q[1] /\ p[2] < q[2]))

\* the loop `for i in range(len(boxes))` of PerfectMatch.calculate: rows and cols are
\* the box rows and goal columns not yet set to inf, k the passes left
RECURSIVE MatchLoop(_, _, _, _, _)
MatchLoop(bs, gs, rows, cols, k) ==
    IF k = 0 \/ rows = {} \/ cols = {} THEN 0
    ELSE LET best == ArgMin(bs, gs, rows, cols)
         IN  L1(bs[best[1]], gs[best[2]])
                 + MatchLoop(bs, gs, rows \ {best[1]}, cols \ {best[2]}, k - 1)

\* PerfectMatch.calculate
PerfectMatch_calculate(state) ==
    LET bs == ListOf(state.boxes)
        gs == ListOf(goals)
    IN  MatchLoop(bs, gs, 1..Len(bs), 1..Len(gs), Len(bs))

\* DeadlockDetector.calculate: the Manhattan sum, or inf when the oracle of the heuristic
\* reports one of the boxes
Deadlock_calculate(state) ==
    IF \E box \in state.boxes : Heuristic_is_deadlock(box, state.boxes, walls, goals)
    THEN np_inf
    ELSE SumNearest(state.boxes, goals)

\* the largest k with k * k <= n, searched upwards from k
RECURSIVE IsqrtFrom(_, _)
IsqrtFrom(n, k) == IF (k + 1) * (k + 1) > n THEN k ELSE IsqrtFrom(n, k + 1)

\* the square root continued by `places` decimal digits (digit by digit): root is the
\* root found so far and rem what is left of the radicand
RECURSIVE SqrtDigits(_, _, _)
SqrtDigits(root, rem, places) ==
    IF places = 0 THEN root
    ELSE LET digit == CHOOSE d \in 0..9 :
                          /\ (20 * root + d) * d <= rem * 100
                          /\ d = 9 \/ (20 * root + d + 1) * (d + 1) > rem * 100
         IN  SqrtDigits(root * 10 + digit, rem * 100 - (20 * root + digit) * digit,
                        places - 1)

RECURSIVE Pow10(_)
Pow10(k) == IF k = 0 THEN 1 ELSE 10 * Pow10(k - 1)

\* SumOfDistanceMinimalMatchingCost._minkowski with p = 2: the Euclidean distance, a
\* float in the code, here in units of 10^-SqrtPlaces, rounded down
_minkowski(a, b) ==
    LET n == (a[1] - b[1]) * (a[1] - b[1]) + (a[2] - b[2]) * (a[2] - b[2])
    IN  SqrtDigits(IsqrtFrom(n, 0), n - IsqrtFrom(n, 0) * IsqrtFrom(n, 0), SqrtPlaces)

\* SumOfDistanceMinimalMatchingCost._player_to_box
_player_to_box(player, boxes) ==
    IF boxes = {} THEN 0
    ELSE LET distances == { _minkowski(player, box) : box \in boxes }
         IN  CHOOSE d \in distances : \A e \in distances : d <= e

\* SumOfDistanceMinimalMatchingCost._match_boxes_goals: the cost of the assignment
\* Munkres.compute returns, the least total over the ways to give every box a goal of
\* its own
RECURSIVE _match_boxes_goals(_, _)
_match_boxes_goals(boxes, G) ==
    IF boxes = {} THEN 0
    ELSE LET box    == CHOOSE b \in boxes : TRUE
             totals == { _minkowski(box, g) + _match_boxes_goals(boxes \ {box}, G \ {g}) :
                         g \in G }
         IN  CHOOSE d \in totals : \A e \in totals : d <= e

\* variant: the boxes already on a goal are not left out
SumOfDistance_calculate_all_boxes(state) ==
    LET boxes == state.boxes
    IN  (_player_to_box(state.player_pos, boxes) + _match_boxes_goals(boxes, goals))
            \div Pow10(SqrtPlaces)

\* SumOfDistanceMinimalMatchingCost.calculate: int(h1 + h2)
SumOfDistance_calculate(state) ==
    LET boxes == state.boxes \ goals
    IN  (_player_to_box(state.player_pos, boxes) + _match_boxes_goals(boxes, goals))
            \div Pow10(SqrtPlaces)

\* HeuristicType
AllHeuristicNames == {"MANHATTAN", "DEADLOCK", "PERFECTMATCH", "SUM_OF_DISTANCE"}

\* the heuristics a search is run with
HeuristicNames == AllHeuristicNames

\* heuristic.calculate(state)
calculate(h, state) ==
    CASE h = "MANHATTAN"       -> Manhattan_calculate(state)
      [] h = "DEADLOCK"        -> Deadlock_calculate(state)
      [] h = "SUM_OF_DISTANCE" -> SumOfDistance_calculate(state)
      [] OTHER                 -> PerfectMatch_calculate(state)

-----------------------------------------------------------------------------
(* StateNode *)

\* StateNode.__init__; parent 0 is None, ns the arena holding the parent
StateNode(state, parent, action, ns) ==
    [state  |-> state,
     parent |-> parent,
     action |-> action,
     cost   |-> IF parent = 0 THEN 0 ELSE ns[parent].cost + 1,
     depth  |-> IF parent = 0 THEN 0 ELSE ns[parent].depth + 1]

-----------------------------------------------------------------------------
(* Frontier strategies.  An item of a frontier is a node index of the arena. *)

AlgorithmTypes == {"BFS", "DFS", "IDDFS", "GREEDY", "ASTAR"}

\* the constructors
NewAlgorithm(type) ==
    CASE type = "BFS"    -> [type |-> "BFS", queue |-> <<>>]
      [] type = "DFS"    -> [type |-> "DFS", stack |-> <<>>]
      [] type = "IDDFS"  -> [type |-> "IDDFS", stack |-> <<>>,
                             current_depth_limit |-> INITIAL_DEPTH_LIMIT,
                             items_at_depth |-> <<>>,
                             max_depth_reached |-> FALSE]
      [] type = "GREEDY" -> [type |-> "GREEDY", nodes |-> <<>>]
      [] type = "ASTAR"  -> [type |-> "ASTAR", pq |-> {}, tie |-> 0]

\* None handed to SearchEngine where a strategy is expected
NoAlgorithm == [type |-> "NONE"]

needs_heuristic(a) == a.type \in {"GREEDY", "ASTAR"}

should_cache_cost(a) == a.type = "ASTAR"

\* IDDFS._get_node_depth: the number of parent links above the node
RECURSIVE _get_node_depth(_, _)
_get_node_depth(item, ns) ==
    IF ns[item].parent = 0 THEN 0 ELSE 1 + _get_node_depth(ns[item].parent, ns)

\* variant: a node deeper than the limit is dropped instead of kept in its bucket
IDDFS_add_drops_deep(a, item, ns) ==
    IF _get_node_depth(item, ns) <= a.current_depth_limit
    THEN [a EXCEPT !.stack = Append(@, item)]
    ELSE a

\* variant: every node goes on the stack, whatever its depth
IDDFS_add_all_on_stack(a, item, ns) == [a EXCEPT !.stack = Append(@, item)]

\* variant: a node put in a depth bucket does not set the overflow flag
IDDFS_add_flag_unset(a, item, ns) ==
    LET depth == _get_node_depth(item, ns)
        old   == IF depth \in DOMAIN a.items_at_depth THEN a.items_at_depth[depth] ELSE <<>>
    IN  IF depth <= a.current_depth_limit
        THEN [a EXCEPT !.stack = Append(@, item)]
        ELSE [a EXCEPT !.items_at_depth =
                           [d \in DOMAIN @ \cup {depth} |->
                               IF d = depth THEN Append(old, item) ELSE @[d]]]

\* IDDFS.add
IDDFS_add(a, item, ns) ==
    LET depth == _get_node_depth(item, ns)
        old   == IF depth \in DOMAIN a.items_at_depth THEN a.items_at_depth[depth] ELSE <<>>
    IN  IF depth <= a.current_depth_limit
        THEN [a EXCEPT !.stack = Append(@, item)]
        ELSE [a EXCEPT !.items_at_depth =
                           [d \in DOMAIN @ \cup {depth} |->
                               IF d = depth THEN Append(old, item) ELSE @[d]],
                       !.max_depth_reached = TRUE]

\* list.sort(key=h) after the append: the sort is stable and the list was sorted, so
\* the new pair lands behind every pair whose h is not larger
RECURSIVE SortedInsert(_, _)
SortedInsert(list, pair) ==
    IF list = <<>> THEN <<pair>>
    ELSE IF Head(list)[1] <= pair[1] THEN <<Head(list)>> \o SortedInsert(Tail(list), pair)
    ELSE <<pair>> \o list

\* variant: the pair is appended and the list is left unsorted
Greedy_add_unsorted(a, item, ns, h) ==
    [a EXCEPT !.nodes = Append(@, <<calculate(h, ns[item].state), item>>)]

\* GreedyAlgorithm.add
Greedy_add(a, item, ns, h) ==
    [a EXCEPT !.nodes = SortedInsert(@, <<calculate(h, ns[item].state), item>>)]

\* variant: an infinite heuristic value is pushed like any other
AStar_add_inf_pushed(a, item, ns, h) ==
    LET g  == ns[item].cost
        hv == calculate(h, ns[item].state)
    IN  [a EXCEPT !.pq = @ \cup { <<g + hv, hv, a.tie, item>> }, !.tie = @ + 1]

\* AStar.add: `if math.isinf(h): return`, otherwise the heappush of (f, h, tie, node)
AStar_add(a, item, ns, h) ==
    LET g  == ns[item].cost
        hv == calculate(h, ns[item].state)
    IN  IF hv = np_inf THEN a
        ELSE [a EXCEPT !.pq = @ \cup { <<g + hv, hv, a.tie, item>> }, !.tie = @ + 1]

\* algorithm.add(item, heuristic)
add(a, item, ns, h) ==
    CASE a.type = "BFS"    -> [a EXCEPT !.queue = Append(@, item)]
      [] a.type = "DFS"    -> [a EXCEPT !.stack = Append(@, item)]
      [] a.type = "IDDFS"  -> IDDFS_add(a, item, ns)
      [] a.type = "GREEDY" -> Greedy_add(a, item, ns, h)
      [] a.type = "ASTAR"  -> AStar_add(a, item, ns, h)

Last(seq) == seq[Len(seq)]

Front(seq) == SubSeq(seq, 1, Len(seq) - 1)

RECURSIVE Concat(_, _, _)
\* the buckets of depths lo..hi that exist, in ascending depth
Concat(items, lo, hi) ==
    IF lo > hi THEN <<>>
    ELSE (IF lo \in DOMAIN items THEN items[lo] ELSE <<>>) \o Concat(items, lo + 1, hi)

\* variant: _increase_depth_limit leaves the overflow flag set
IDDFS_reload_flag_kept(a) ==
    LET limit == a.current_depth_limit + DEPTH_INCREMENT
    IN  [a EXCEPT !.current_depth_limit = limit,
                  !.stack = @ \o Concat(a.items_at_depth, 0, limit),
                  !.items_at_depth = [d \in { e \in DOMAIN @ : e > limit } |-> @[d]]]

\* variant: the limit is raised by one level
IDDFS_reload_one_level(a) ==
    LET limit == a.current_depth_limit + 1
    IN  [a EXCEPT !.current_depth_limit = limit,
                  !.max_depth_reached = FALSE,
                  !.stack = @ \o Concat(a.items_at_depth, 0, limit),
                  !.items_at_depth = [d \in { e \in DOMAIN @ : e > limit } |-> @[d]]]

\* IDDFS._increase_depth_limit followed by _reload_items_for_current_depth
IDDFS_reload(a) ==
    LET limit == a.current_depth_limit + DEPTH_INCREMENT
    IN  [a EXCEPT !.current_depth_limit = limit,
                  !.max_depth_reached = FALSE,
                  !.stack = @ \o Concat(a.items_at_depth, 0, limit),
                  !.items_at_depth = [d \in { e \in DOMAIN @ : e > limit } |-> @[d]]]

\* IDDFS.get_next; item 0 is None
IDDFS_get_next(a) ==
    IF a.stack # <<>>
    THEN [alg |-> [a EXCEPT !.stack = Front(@)], item |-> Last(a.stack)]
    ELSE IF a.max_depth_reached
    THEN LET b == IDDFS_reload(a)
         IN  IF b.stack # <<>>
             THEN [alg |-> [b EXCEPT !.stack = Front(@)], item |-> Last(b.stack)]
             ELSE [alg |-> b, item |-> 0]
    ELSE [alg |-> a, item |-> 0]

\* variant: the entries are compared by h before f
EntryLess_h_first(x, y) ==
    \/ x[2] < y[2]
    \/ x[2] = y[2] /\ x[1] < y[1]
    \/ x[1] = y[1] /\ x[2] = y[2] /\ x[3] < y[3]

\* tuple order of the heap entries (f, h, tie, node); tie is unique
EntryLess(x, y) ==
    \/ x[1] < y[1]
    \/ x[1] = y[1] /\ x[2] < y[2]
    \/ x[1] = y[1] /\ x[2] = y[2] /\ x[3] < y[3]

\* heapq.heappop
AStar_get_next(a) ==
    LET top == CHOOSE x \in a.pq : \A y \in a.pq : y = x \/ EntryLess(x, y)
    IN  [alg |-> [a EXCEPT !.pq = @ \ {top}], item |-> top[4]]

\* algorithm.get_next(): the strategy after the pop and the item popped
get_next(a) ==
    CASE a.type = "BFS"    -> [alg |-> [a EXCEPT !.queue = Tail(@)], item |-> Head(a.queue)]
      [] a.type = "DFS"    -> [alg |-> [a EXCEPT !.stack = Front(@)], item |-> Last(a.stack)]
      [] a.type = "IDDFS"  -> IDDFS_get_next(a)
      [] a.type = "GREEDY" -> [alg |-> [a EXCEPT !.nodes = Tail(@)], item |-> Head(a.nodes)[2]]
      [] a.type = "ASTAR"  -> AStar_get_next(a)

has_next(a) ==
    CASE a.type = "BFS"    -> Len(a.queue) > 0
      [] a.type = "DFS"    -> Len(a.stack) > 0
      [] a.type = "IDDFS"  -> Len(a.stack) > 0 \/ a.max_depth_reached
      [] a.type = "GREEDY" -> Len(a.nodes) > 0
      [] a.type = "ASTAR"  -> a.pq # {}

RECURSIVE BucketTotal(_, _)
BucketTotal(items, ds) ==
    IF ds = {} THEN 0
    ELSE LET d == CHOOSE e \in ds : TRUE
         IN  Len(items[d]) + BucketTotal(items, ds \ {d})

\* variant: the IDDFS size leaves the depth buckets out
size_stack_only(a) ==
    CASE a.type = "BFS"    -> Len(a.queue)
      [] a.type = "DFS"    -> Len(a.stack)
      [] a.type = "IDDFS"  -> Len(a.stack)
      [] a.type = "GREEDY" -> Len(a.nodes)
      [] a.type = "ASTAR"  -> Cardinality(a.pq)

size(a) ==
    CASE a.type = "BFS"    -> Len(a.queue)
      [] a.type = "DFS"    -> Len(a.stack)
      [] a.type = "IDDFS"  -> Len(a.stack) + BucketTotal(a.items_at_depth, DOMAIN a.items_at_depth)
      [] a.type = "GREEDY" -> Len(a.nodes)
      [] a.type = "ASTAR"  -> Cardinality(a.pq)

\* the names get_algorithm_type() returns
get_algorithm_type(a) == IF a.type = "GREEDY" THEN "Greedy" ELSE a.type

-----------------------------------------------------------------------------
(* SearchResult *)

NoResult ==
    [kind |-> "none", success |-> FALSE, states_path |-> <<>>, actions_path |-> <<>>,
     cost |-> 0, nodes_expanded |-> 0, max_frontier_size |-> 0, algorithm_type |-> ""]

\* SearchResult.create_success
create_success(states_path, actions_path, expanded, max_size, type) ==
    [kind |-> "success", success |-> TRUE, states_path |-> states_path,
     actions_path |-> actions_path, cost |-> Max2(0, Len(states_path) - 1),
     nodes_expanded |-> expanded, max_frontier_size |-> max_size, algorithm_type |-> type]

\* SearchResult.create_failure
create_failure(expanded, max_size, type) ==
    [kind |-> "failure", success |-> FALSE, states_path |-> <<>>, actions_path |-> <<>>,
     cost |-> 0, nodes_expanded |-> expanded, max_frontier_size |-> max_size,
     algorithm_type |-> type]

\* get_next() returned None and the loop read its .state: the search ends in an exception
Crashed == [NoResult EXCEPT !.kind = "error"]

-----------------------------------------------------------------------------
(* SearchEngine *)

Reverse(seq) == [i \in 1..Len(seq) |-> seq[Len(seq) + 1 - i]]

\* the while loop of _reconstruct_path_from_node: the nodes from goal_node up to the root
RECURSIVE ChainOf(_, _)
ChainOf(ns, node) == IF node = 0 THEN <<>> ELSE <<node>> \o ChainOf(ns, ns[node].parent)

\* variant: the two lists are returned as collected, goal first
_reconstruct_path_not_reversed(ns, goal_node) ==
    LET chain == ChainOf(ns, goal_node)
    IN  [states  |-> [i \in 1..Len(chain) |-> ns[chain[i]].state],
         actions |-> [i \in 1..Len(chain) |-> ns[chain[i]].action]]

_reconstruct_path_from_node(ns, goal_node) ==
    LET chain == ChainOf(ns, goal_node)
    IN  [states  |-> Reverse([i \in 1..Len(chain) |-> ns[chain[i]].state]),
         actions |-> Reverse([i \in 1..Len(chain) |-> ns[chain[i]].action])]

_create_success_from_node(ns, node, expanded, max_size, a) ==
    LET path == _reconstruct_path_from_node(ns, node)
    IN  create_success(path.states, path.actions, expanded, max_size, get_algorithm_type(a))

\* number of heuristic.calculate calls one add makes
EvalsOfAdd(a) == IF a.type \in {"GREEDY", "ASTAR"} THEN 1 ELSE 0

\* variant: the membership test is lost
AlreadyClosed_never(state, closed_states) == FALSE

\* `if state in closed_states: continue` of the plain loop
AlreadyClosed(state, closed_states) == state \in closed_states

\* the body of `for successor_node in current_node.get_successors()` of
\* _search_without_cost_caching, run over the successors left; acc carries the
\* frontier, the arena, closed_states, max_frontier_size and the histories
RECURSIVE ExpandWithoutCache(_, _, _, _)
ExpandWithoutCache(succs, current, h, acc) ==
    IF succs = <<>> THEN acc
    ELSE IF AlreadyClosed(Head(succs).state, acc.closed)
    THEN ExpandWithoutCache(Tail(succs), current, h, acc)
    ELSE LET ns  == Append(acc.nodes,
                           StateNode(Head(succs).state, current, Head(succs).action, acc.nodes))
             alg == add(acc.alg, Len(ns), ns, h)
         IN  ExpandWithoutCache(Tail(succs), current, h,
                 [alg    |-> alg,
                  nodes  |-> ns,
                  closed |-> acc.closed \cup {Head(succs).state},
                  best   |-> acc.best,
                  max    |-> Max2(acc.max, size(alg)),
                  pushed |-> Append(acc.pushed, Len(ns)),
                  evals  |-> acc.evals + EvalsOfAdd(acc.alg)])

\* variant: a child whose g equals the best g of its state is not skipped
NotCheaper_strict(g, state, best) == state \in DOMAIN best /\ g > best[state]

\* `if g >= best_costs.get(state, float("inf")): continue` of the cost-caching loop
NotCheaper(g, state, best) == state \in DOMAIN best /\ g >= best[state]

\* variant: no popped node counts as stale
Stale_never(node, best) == FALSE

\* `if current_node.cost > best_costs.get(current_node.state, float("inf")): continue`
Stale(node, best) == node.state \in DOMAIN best /\ node.cost > best[node.state]

\* the body of the for loop of _search_with_cost_caching over the successors left
RECURSIVE ExpandWithCache(_, _, _, _)
ExpandWithCache(succs, current, h, acc) ==
    IF succs = <<>> THEN acc
    ELSE LET child == StateNode(Head(succs).state, current, Head(succs).action, acc.nodes)
         IN  IF NotCheaper(child.cost, child.state, acc.best)
             THEN ExpandWithCache(Tail(succs), current, h, acc)
             ELSE LET ns  == Append(acc.nodes, child)
                      alg == add(acc.alg, Len(ns), ns, h)
                  IN  ExpandWithCache(Tail(succs), current, h,
                          [alg    |-> alg,
                           nodes  |-> ns,
                           closed |-> acc.closed \ {child.state},
                           best   |-> [st \in DOMAIN acc.best \cup {child.state} |->
                                          IF st = child.state THEN child.cost
                                          ELSE acc.best[st]],
                           max    |-> Max2(acc.max, size(alg)),
                           pushed |-> Append(acc.pushed, Len(ns)),
                           evals  |-> acc.evals + EvalsOfAdd(acc.alg)])

Acc == [alg |-> algorithm, nodes |-> nodes, closed |-> closed, best |-> best_costs,
        max |-> max_frontier_size, pushed |-> pushed, evals |-> heur_evals]

TakeAcc(acc) ==
    /\ algorithm' = acc.alg
    /\ nodes' = acc.nodes
    /\ closed' = acc.closed
    /\ best_costs' = acc.best
    /\ max_frontier_size' = acc.max
    /\ pushed' = acc.pushed
    /\ heur_evals' = acc.evals

board == <<map_file, walls, goals, initial_state, heuristic, cur, pruning, exit_code,
          h_values, oracle, first_result, _aisle_cache, cache_keys, callers>>

\* MapLoader.load_from_file on the map the run names
load_from_file ==
    /\ pc = "load"
    /\ IF ParseError(map_file)
       THEN /\ pc' = "error"
            /\ UNCHANGED <<walls, goals, initial_state, cur>>
       ELSE /\ pc' = "loaded"
            /\ walls' = ParsedWalls(map_file)
            /\ goals' = ParsedGoals(map_file)
            /\ initial_state' = ParsedState(map_file)
            /\ cur' = ParsedState(map_file)
    /\ UNCHANGED <<first_result, _aisle_cache, cache_keys, callers,
                   map_file, algorithm, heuristic, nodes, closed, best_costs,
                   nodes_expanded, max_frontier_size, result, returned, pushed,
                   heur_evals, expanded_nodes, pruning,
                   exit_code, h_values, oracle>>

\* variant: a heuristic handed over with a strategy that needs none is refused
SearchEngine_init_refuses_spare_heuristic ==
    /\ pc = "loaded"
    /\ pc' = IF algorithm = NoAlgorithm THEN "error"
             ELSE IF needs_heuristic(algorithm) = (heuristic = "NONE") THEN "error"
             ELSE "ready"
    /\ UNCHANGED <<board, algorithm, nodes, closed, best_costs, nodes_expanded,
                   max_frontier_size, result, returned, pushed, heur_evals,
                   expanded_nodes>>

\* variant: the heuristic of a strategy that needs one is not looked at
SearchEngine_init_heuristic_unchecked ==
    /\ pc = "loaded"
    /\ pc' = IF algorithm = NoAlgorithm THEN "error" ELSE "ready"
    /\ UNCHANGED <<board, algorithm, nodes, closed, best_costs, nodes_expanded,
                   max_frontier_size, result, returned, pushed, heur_evals,
                   expanded_nodes>>

\* SearchEngine.__init__: the ValueError for a strategy that is None, and the one when
\* a heuristic is needed and none is given; otherwise the engine exists
SearchEngine_init ==
    /\ pc = "loaded"
    /\ pc' = IF algorithm = NoAlgorithm THEN "error"
             ELSE IF needs_heuristic(algorithm) /\ heuristic = "NONE" THEN "error"
             ELSE "ready"
    /\ UNCHANGED <<board, algorithm, nodes, closed, best_costs, nodes_expanded,
                   max_frontier_size, result, returned, pushed, heur_evals,
                               expanded_nodes>>

\* variant: the start node is handed to the frontier before the goal test
search_add_first ==
    /\ pc = "ready"
    /\ nodes' = << StateNode(initial_state, 0, "START", <<>>) >>
    /\ nodes_expanded' = 0
    /\ algorithm' = add(algorithm, 1, nodes', heuristic)
    /\ max_frontier_size' = Max2(0, size(algorithm'))
    /\ pushed' = <<1>>
    /\ heur_evals' = EvalsOfAdd(algorithm)
    /\ IF is_goal(initial_state)
       THEN /\ result' = _create_success_from_node(nodes', 1, 0, max_frontier_size',
                                                   algorithm)
            /\ returned' = 1
            /\ pc' = "done"
            /\ UNCHANGED <<closed, best_costs>>
       ELSE /\ IF should_cache_cost(algorithm)
               THEN /\ best_costs' = [st \in {initial_state} |-> 0]
                    /\ closed' = {}
                    /\ pc' = "with_cache"
               ELSE /\ best_costs' = <<>>
                    /\ closed' = {initial_state}
                    /\ pc' = "without_cache"
            /\ UNCHANGED <<result, returned>>
    /\ UNCHANGED <<board, expanded_nodes>>

\* SearchEngine.search up to the call of one of the two loops
search ==
    /\ pc = "ready"
    /\ nodes' = << StateNode(initial_state, 0, "START", <<>>) >>
    /\ nodes_expanded' = 0
    /\ IF is_goal(initial_state)
       THEN /\ result' = _create_success_from_node(nodes', 1, 0, 0, algorithm)
            /\ returned' = 1
            /\ pc' = "done"
            /\ max_frontier_size' = 0
            /\ UNCHANGED <<algorithm, closed, best_costs, pushed, heur_evals>>
       ELSE /\ algorithm' = add(algorithm, 1, nodes', heuristic)
            /\ max_frontier_size' = Max2(0, size(algorithm'))
            /\ pushed' = <<1>>
            /\ heur_evals' = EvalsOfAdd(algorithm)
            /\ IF should_cache_cost(algorithm)
               THEN /\ best_costs' = [st \in {initial_state} |-> 0]
                    /\ closed' = {}
                    /\ pc' = "with_cache"
               ELSE /\ best_costs' = <<>>
                    /\ closed' = {initial_state}
                    /\ pc' = "without_cache"
            /\ UNCHANGED <<result, returned>>
    /\ UNCHANGED <<board, expanded_nodes>>

\* the root nodes of the arena: one per search() call made so far
Roots == { i \in DOMAIN nodes : nodes[i].parent = 0 }

\* variant: _init_metrics does not reset nodes_expanded
search_again_metrics_kept ==
    /\ pc = "done"
    /\ Cardinality(Roots) < MaxSearches
    /\ first_result' = IF Cardinality(Roots) = 1 THEN result ELSE first_result
    /\ nodes' = Append(nodes, StateNode(initial_state, 0, "START", nodes))
    /\ nodes_expanded' = nodes_expanded
    /\ expanded_nodes' = <<>>
    /\ IF is_goal(initial_state)
       THEN /\ result' = _create_success_from_node(nodes', Len(nodes'), 0, 0, algorithm)
            /\ returned' = Len(nodes')
            /\ pc' = "done"
            /\ max_frontier_size' = 0
            /\ pushed' = <<>>
            /\ heur_evals' = 0
            /\ UNCHANGED <<algorithm, closed, best_costs>>
       ELSE /\ algorithm' = add(algorithm, Len(nodes'), nodes', heuristic)
            /\ max_frontier_size' = Max2(0, size(algorithm'))
            /\ pushed' = << Len(nodes') >>
            /\ heur_evals' = EvalsOfAdd(algorithm)
            /\ result' = NoResult
            /\ returned' = 0
            /\ IF should_cache_cost(algorithm)
               THEN /\ best_costs' = [st \in {initial_state} |-> 0]
                    /\ closed' = {}
                    /\ pc' = "with_cache"
               ELSE /\ best_costs' = <<>>
                    /\ closed' = {initial_state}
                    /\ pc' = "without_cache"
    /\ UNCHANGED <<map_file, walls, goals, initial_state, heuristic, cur, pruning,
                   exit_code, h_values, oracle, _aisle_cache, cache_keys, callers>>

\* SearchEngine.search called again on the engine after the call before has returned
\* its result, with the same initial state. _init_metrics resets the two counters and
\* each loop makes its own closed set and best_costs; the strategy object is the one
\* the call before left, and the nodes it holds stay alive in the arena. The histories
\* (pushed, heur_evals, expanded_nodes, returned) are those of the call under way.
search_again ==
    /\ pc = "done"
    /\ Cardinality(Roots) < MaxSearches
    /\ first_result' = IF Cardinality(Roots) = 1 THEN result ELSE first_result
    /\ nodes' = Append(nodes, StateNode(initial_state, 0, "START", nodes))
    /\ nodes_expanded' = 0
    /\ expanded_nodes' = <<>>
    /\ IF is_goal(initial_state)
       THEN /\ result' = _create_success_from_node(nodes', Len(nodes'), 0, 0, algorithm)
            /\ returned' = Len(nodes')
            /\ pc' = "done"
            /\ max_frontier_size' = 0
            /\ pushed' = <<>>
            /\ heur_evals' = 0
            /\ UNCHANGED <<algorithm, closed, best_costs>>
       ELSE /\ algorithm' = add(algorithm, Len(nodes'), nodes', heuristic)
            /\ max_frontier_size' = Max2(0, size(algorithm'))
            /\ pushed' = << Len(nodes') >>
            /\ heur_evals' = EvalsOfAdd(algorithm)
            /\ result' = NoResult
            /\ returned' = 0
            /\ IF should_cache_cost(algorithm)
               THEN /\ best_costs' = [st \in {initial_state} |-> 0]
                    /\ closed' = {}
                    /\ pc' = "with_cache"
               ELSE /\ best_costs' = <<>>
                    /\ closed' = {initial_state}
                    /\ pc' = "without_cache"
    /\ UNCHANGED <<map_file, walls, goals, initial_state, heuristic, cur, pruning,
                   exit_code, h_values, oracle, _aisle_cache, cache_keys, callers>>

\* variant: the node popped is counted as expanded before its goal test
without_cost_caching_pass_counts_goal ==
    /\ pc = "without_cache"
    /\ has_next(algorithm)
    /\ LET current == get_next(algorithm).item
           popped  == get_next(algorithm).alg
       IN  IF current = 0
           THEN /\ result' = Crashed
                /\ pc' = "error"
                /\ algorithm' = popped
                /\ UNCHANGED <<nodes, closed, best_costs, nodes_expanded,
                               max_frontier_size, returned, pushed, heur_evals,
                               expanded_nodes>>
           ELSE IF is_goal(nodes[current].state)
           THEN /\ result' = _create_success_from_node(nodes, current, nodes_expanded + 1,
                                                       max_frontier_size, algorithm)
                /\ returned' = current
                /\ pc' = "done"
                /\ algorithm' = popped
                /\ nodes_expanded' = nodes_expanded + 1
                /\ expanded_nodes' = Append(expanded_nodes, current)
                /\ UNCHANGED <<nodes, closed, best_costs, max_frontier_size, pushed,
                               heur_evals>>
           ELSE /\ nodes_expanded' = nodes_expanded + 1
                /\ expanded_nodes' = Append(expanded_nodes, current)
                /\ TakeAcc(ExpandWithoutCache(get_successors(nodes[current].state), current,
                                              heuristic, [Acc EXCEPT !.alg = popped]))
                /\ UNCHANGED <<pc, result, returned>>
    /\ UNCHANGED board

\* one pass of the while loop of _search_without_cost_caching
without_cost_caching_pass ==
    /\ pc = "without_cache"
    /\ has_next(algorithm)
    /\ LET current == get_next(algorithm).item
           popped  == get_next(algorithm).alg
       IN  IF current = 0
           THEN /\ result' = Crashed
                /\ pc' = "error"
                /\ algorithm' = popped
                /\ UNCHANGED <<nodes, closed, best_costs, nodes_expanded,
                               max_frontier_size, returned, pushed, heur_evals,
                               expanded_nodes>>
           ELSE IF is_goal(nodes[current].state)
           THEN /\ result' = _create_success_from_node(nodes, current, nodes_expanded,
                                                       max_frontier_size, algorithm)
                /\ returned' = current
                /\ pc' = "done"
                /\ algorithm' = popped
                /\ UNCHANGED <<nodes, closed, best_costs, nodes_expanded,
                               max_frontier_size, pushed, heur_evals,
                               expanded_nodes>>
           ELSE /\ nodes_expanded' = nodes_expanded + 1
                /\ expanded_nodes' = Append(expanded_nodes, current)
                /\ TakeAcc(ExpandWithoutCache(get_successors(nodes[current].state), current,
                                              heuristic, [Acc EXCEPT !.alg = popped]))
                /\ UNCHANGED <<pc, result, returned>>
    /\ UNCHANGED board

\* one pass of the while loop of _search_with_cost_caching
with_cost_caching_pass ==
    /\ pc = "with_cache"
    /\ has_next(algorithm)
    /\ LET current == get_next(algorithm).item
           popped  == get_next(algorithm).alg
       IN  IF Stale(nodes[current], best_costs)
           THEN /\ algorithm' = popped
                /\ UNCHANGED <<pc, nodes, closed, best_costs, nodes_expanded,
                               max_frontier_size, result, returned, pushed, heur_evals,
                               expanded_nodes>>
           ELSE IF is_goal(nodes[current].state)
           THEN /\ result' = _create_success_from_node(nodes, current, nodes_expanded,
                                                       max_frontier_size, algorithm)
                /\ returned' = current
                /\ pc' = "done"
                /\ algorithm' = popped
                /\ closed' = closed \cup {nodes[current].state}
                /\ UNCHANGED <<nodes, best_costs, nodes_expanded, max_frontier_size,
                               pushed, heur_evals,
                               expanded_nodes>>
           ELSE /\ nodes_expanded' = nodes_expanded + 1
                /\ expanded_nodes' = Append(expanded_nodes, current)
                /\ TakeAcc(ExpandWithCache(get_successors(nodes[current].state), current,
                               heuristic,
                               [Acc EXCEPT !.alg = popped,
                                           !.closed = @ \cup {nodes[current].state}]))
                /\ UNCHANGED <<pc, result, returned>>
    /\ UNCHANGED board

\* the while condition fails: `return self._create_failure()` of either loop
frontier_exhausted ==
    /\ pc \in {"without_cache", "with_cache"}
    /\ ~ has_next(algorithm)
    /\ result' = create_failure(nodes_expanded, max_frontier_size,
                                get_algorithm_type(algorithm))
    /\ pc' = "done"
    /\ UNCHANGED <<board, algorithm, nodes, closed, best_costs, nodes_expanded,
                   max_frontier_size, returned, pushed, heur_evals,
                               expanded_nodes>>

\* main returns: after the search has returned and its result is printed and exported,
\* or after `except Exception` has printed the error of the loader, of the constructor
\* or of the search. Neither path calls exit, so the interpreter ends with code 0.
main_return ==
    /\ pc \in {"done", "error"}
    /\ pc' = "exited"
    /\ exit_code' = 0
    /\ UNCHANGED <<first_result, _aisle_cache, cache_keys, callers,
                   map_file, algorithm, heuristic, walls, goals, initial_state, nodes,
                   closed, best_costs, nodes_expanded, max_frontier_size, result,
                   returned, pushed, heur_evals, cur, expanded_nodes, pruning, h_values,
                   oracle>>

Init ==
    /\ map_file \in { Maps[i] : i \in 1..NumMaps } \cup {MapLongFork}
    /\ algorithm \in { NewAlgorithm(type) : type \in AlgorithmTypes } \cup {NoAlgorithm}
    /\ heuristic \in HeuristicNames \cup {"NONE"}
    /\ pc = "load"
    /\ walls = {}
    /\ goals = {}
    /\ initial_state = [player_pos |-> <<0, 0>>, boxes |-> {}]
    /\ cur = [player_pos |-> <<0, 0>>, boxes |-> {}]
    /\ nodes = <<>>
    /\ closed = {}
    /\ best_costs = <<>>
    /\ nodes_expanded = 0
    /\ max_frontier_size = 0
    /\ result = NoResult
    /\ returned = 0
    /\ pushed = <<>>
    /\ heur_evals = 0
    /\ expanded_nodes = <<>>
    /\ pruning = FALSE
    /\ exit_code = -1
    /\ h_values = <<>>
    /\ oracle = <<>>
    /\ first_result = NoResult
    /\ _aisle_cache = <<>>
    /\ cache_keys = {}
    /\ callers = <<>>

Next ==
    \/ load_from_file
    \/ SearchEngine_init
    \/ search
    \/ without_cost_caching_pass
    \/ with_cost_caching_pass
    \/ frontier_exhausted
    \/ main_return

Spec == Init /\ [][Next]_vars

\* search() runs to its return without suspension: a step that can be taken is taken.
\* This is WF_vars(Next) with ENABLED <<Next>>_vars written out: some action can
\* change the state exactly while main has not returned.
FairSpec == Spec /\ ([]<>(pc = "exited") \/ []<><<Next>>_vars)

-----------------------------------------------------------------------------
(* One engine asked to search more than once *)

NextReuse ==
    \/ load_from_file
    \/ SearchEngine_init
    \/ search
    \/ search_again
    \/ without_cost_caching_pass
    \/ with_cost_caching_pass
    \/ frontier_exhausted

InitReuse == Init /\ map_file \in { Maps[i] : i \in 1..ReuseMaps }

SpecReuse == InitReuse /\ [][NextReuse]_vars

-----------------------------------------------------------------------------
(* A walk over the successor function from the states the loader produces *)

\* the row closed by a wall on every side
Bordered(row) ==
    << WallRow(Len(row) + 2), <<"#">> \o row \o <<"#">>, WallRow(Len(row) + 2) >>

RowMaps == { Bordered(row) : row \in [1..GridCols -> TileChars] }

\* a push to the right completes a block of four boxes: ###### / #+* $# / #..$$# / ######
MapSquare ==
    << <<"#", "#", "#", "#", "#", "#">>,
       <<"#", "+", "*", " ", "$", "#">>,
       <<"#", ".", ".", "$", "$", "#">>,
       <<"#", "#", "#", "#", "#", "#">> >>

InitWalk ==
    /\ map_file \in { Maps[i] : i \in 1..NumMaps } \cup RowMaps \cup {MapSquare}
    /\ algorithm = NewAlgorithm("BFS")
    /\ heuristic = "NONE"
    /\ pc = "load"
    /\ walls = {}
    /\ goals = {}
    /\ initial_state = [player_pos |-> <<0, 0>>, boxes |-> {}]
    /\ cur = [player_pos |-> <<0, 0>>, boxes |-> {}]
    /\ nodes = <<>>
    /\ closed = {}
    /\ best_costs = <<>>
    /\ nodes_expanded = 0
    /\ max_frontier_size = 0
    /\ result = NoResult
    /\ returned = 0
    /\ pushed = <<>>
    /\ heur_evals = 0
    /\ expanded_nodes = <<>>
    /\ pruning \in BOOLEAN
    /\ exit_code = -1
    /\ h_values = <<>>
    /\ oracle = <<>>
    /\ first_result = NoResult
    /\ _aisle_cache = <<>>
    /\ cache_keys = {}
    /\ callers = <<>>

\* one of the states get_successors returns for the state the walk stands on
take_successor ==
    /\ pc = "loaded"
    /\ \E i \in 1..Len(get_successors(cur)) : cur' = get_successors(cur)[i].state
    /\ UNCHANGED <<first_result, _aisle_cache, cache_keys, callers,
                   map_file, algorithm, heuristic, pc, walls, goals, initial_state, nodes,
                   closed, best_costs, nodes_expanded, max_frontier_size, result,
                   returned, pushed, heur_evals, expanded_nodes, pruning,
                   exit_code, h_values, oracle>>

NextWalk ==
    \/ load_from_file
    \/ take_successor

SpecWalk == InitWalk /\ [][NextWalk]_vars

-----------------------------------------------------------------------------
(* The heuristics and the two deadlock oracles applied to the states the loader
   produces from small walled boards *)

\* number of rows the BoardCells cells of a board are laid out in
BoardRows == (BoardCells + BoardWidth - 1) \div BoardWidth

\* the cells of fill laid out row by row in BoardWidth columns, the cells left over in
\* the last row being walls, closed by a wall on every side
BorderedBoard(fill) ==
    << WallRow(BoardWidth + 2) >>
        \o [ r \in 1..BoardRows |->
               <<"#">> \o [ c \in 1..BoardWidth |->
                              IF (r - 1) * BoardWidth + c <= BoardCells
                              THEN fill[(r - 1) * BoardWidth + c] ELSE "#" ]
                       \o <<"#">> ]
        \o << WallRow(BoardWidth + 2) >>

\* the boards with one player cell
BoardMaps ==
    { BorderedBoard(fill) :
        fill \in { f \in [1..BoardCells -> TileChars] :
                     Cardinality({ i \in 1..BoardCells : f[i] \in {"@", "+"} }) = 1 } }

\* the wall under the box ends one cell to the left of it: ###### / #. $@# / #  ### / ######
MapDoor ==
    << <<"#", "#", "#", "#", "#", "#">>,
       <<"#", ".", " ", "$", "@", "#">>,
       <<"#", " ", " ", "#", "#", "#">>,
       <<"#", "#", "#", "#", "#", "#">> >>

InitBoard ==
    /\ map_file \in BoardMaps \cup {MapDoor}
    /\ algorithm = NewAlgorithm("BFS")
    /\ heuristic = "NONE"
    /\ pc = "load"
    /\ walls = {}
    /\ goals = {}
    /\ initial_state = [player_pos |-> <<0, 0>>, boxes |-> {}]
    /\ cur = [player_pos |-> <<0, 0>>, boxes |-> {}]
    /\ nodes = <<>>
    /\ closed = {}
    /\ best_costs = <<>>
    /\ nodes_expanded = 0
    /\ max_frontier_size = 0
    /\ result = NoResult
    /\ returned = 0
    /\ pushed = <<>>
    /\ heur_evals = 0
    /\ expanded_nodes = <<>>
    /\ pruning = FALSE
    /\ exit_code = -1
    /\ h_values = <<>>
    /\ oracle = <<>>
    /\ first_result = NoResult
    /\ _aisle_cache = <<>>
    /\ cache_keys = {}
    /\ callers = <<>>

\* heuristic.calculate(state) of each of the four heuristics on the state loaded
heuristic_calculate ==
    /\ pc = "loaded"
    /\ pc' = "calculated"
    /\ h_values' = [h \in AllHeuristicNames |-> calculate(h, cur)]
    /\ UNCHANGED <<first_result, _aisle_cache, cache_keys, callers,
                   map_file, algorithm, heuristic, walls, goals, initial_state, nodes,
                   closed, best_costs, nodes_expanded, max_frontier_size, result,
                   returned, pushed, heur_evals, cur, expanded_nodes, pruning, exit_code,
                   oracle>>

\* DeadlockDetector.is_deadlock of heuristics/deadlock.py and of core/state.py, and the
\* wall-segment detector on its own, asked about a cell that is no wall, with the boxes
\* of the state loaded
is_deadlock_query ==
    /\ pc = "loaded"
    /\ pc' = "queried"
    /\ \E box_pos \in Cells(map_file) \ walls :
           oracle' = [box_pos   |-> box_pos,
                      heuristic |-> Heuristic_is_deadlock(box_pos, cur.boxes, walls, goals),
                      successor |-> is_deadlock(box_pos, cur.boxes, walls, goals),
                      between_corners |-> _is_between_corners_no_door(box_pos, walls, goals)]
    /\ UNCHANGED <<first_result, _aisle_cache, cache_keys, callers,
                   map_file, algorithm, heuristic, walls, goals, initial_state, nodes,
                   closed, best_costs, nodes_expanded, max_frontier_size, result,
                   returned, pushed, heur_evals, cur, expanded_nodes, pruning, exit_code,
                   h_values>>

NextBoard ==
    \/ load_from_file
    \/ heuristic_calculate
    \/ is_deadlock_query

SpecBoard == InitBoard /\ [][NextBoard]_vars

-----------------------------------------------------------------------------
(* DeadlockDetector._get_aisle_pruned_cells and its class-level cache, called from one
   thread or from several. A call is cut where it reads and where it writes the shared
   dictionary; what lies between works on locals of the call. *)

\* the key the cache is indexed with for a loaded map: (walls, goals)
KeyOf(lines) == <<ParsedWalls(lines), ParsedGoals(lines)>>

\* the cells of fill laid out row by row in BoardWidth columns with no wall around
\* them; the last row is as long as the cells left over
OpenBoard(fill) ==
    [ r \in 1..BoardRows |->
        [ c \in 1..Min2(BoardWidth, BoardCells - (r - 1) * BoardWidth) |->
            fill[(r - 1) * BoardWidth + c] ] ]

\* the open boards with one player cell
OpenMaps ==
    { OpenBoard(fill) :
        fill \in { f \in [1..BoardCells -> TileChars] :
                     Cardinality({ i \in 1..BoardCells : f[i] \in {"@", "+"} }) = 1 } }

\* the keys of the maps the loader accepts
AisleKeys == { KeyOf(lines) : lines \in { m \in BoardMaps \cup OpenMaps : ~ ParseError(m) } }

\* a thread that is not inside _get_aisle_pruned_cells
NoCall == [pc |-> "idle", key |-> <<{}, {}>>, pruned_cells |-> {}, cached |-> FALSE]

engine == <<map_file, algorithm, heuristic, pc, walls, goals, initial_state, nodes,
            closed, best_costs, nodes_expanded, max_frontier_size, result,
            returned, pushed, heur_evals, cur, expanded_nodes,
            pruning, exit_code, h_values, oracle, first_result>>

\* a thread enters _get_aisle_pruned_cells(walls, goals): `key = (walls, goals)`
aisle_call ==
    \E t \in DOMAIN callers :
        /\ callers[t].pc \in {"idle", "returned"}
        /\ \E key \in cache_keys :
               callers' = [callers EXCEPT ![t] = [NoCall EXCEPT !.pc = "called", !.key = key]]
        /\ UNCHANGED <<engine, cache_keys, _aisle_cache>>

\* `cached = _aisle_cache.get(key)` and the return of a value found
aisle_lookup ==
    \E t \in DOMAIN callers :
        /\ callers[t].pc = "called"
        /\ IF callers[t].key \in DOMAIN _aisle_cache
           THEN callers' = [callers EXCEPT ![t].pc = "returned",
                                           ![t].pruned_cells = _aisle_cache[callers[t].key],
                                           ![t].cached = TRUE]
           ELSE callers' = [callers EXCEPT ![t].pc = "missed"]
        /\ UNCHANGED <<engine, cache_keys, _aisle_cache>>

\* variant: the entry is written, empty, before the loop has run
aisle_compute_publishes_early ==
    \E t \in DOMAIN callers :
        /\ callers[t].pc = "missed"
        /\ callers' = [callers EXCEPT
                          ![t].pc = "computed",
                          ![t].pruned_cells =
                              _get_aisle_pruned_cells(callers[t].key[1], callers[t].key[2])]
        /\ _aisle_cache' = [k \in DOMAIN _aisle_cache \cup {callers[t].key} |->
                               IF k = callers[t].key THEN {} ELSE _aisle_cache[k]]
        /\ UNCHANGED <<engine, cache_keys>>

\* the bounds, the floor, the `while changed` loop and the frozenset made of its result
aisle_compute ==
    \E t \in DOMAIN callers :
        /\ callers[t].pc = "missed"
        /\ callers' = [callers EXCEPT
                          ![t].pc = "computed",
                          ![t].pruned_cells =
                              _get_aisle_pruned_cells(callers[t].key[1], callers[t].key[2])]
        /\ UNCHANGED <<engine, cache_keys, _aisle_cache>>

\* `_aisle_cache[key] = pruned_cells` and the return
aisle_store ==
    \E t \in DOMAIN callers :
        /\ callers[t].pc = "computed"
        /\ _aisle_cache' = [k \in DOMAIN _aisle_cache \cup {callers[t].key} |->
                               IF k = callers[t].key THEN callers[t].pruned_cells
                               ELSE _aisle_cache[k]]
        /\ callers' = [callers EXCEPT ![t].pc = "returned"]
        /\ UNCHANGED <<engine, cache_keys>>

NextAisle ==
    \/ aisle_call
    \/ aisle_lookup
    \/ aisle_compute
    \/ aisle_store

\* no engine runs; the oracle is asked from `threads` threads about the keys `keys`
InitOracle(keys, threads) ==
    /\ map_file = <<>>
    /\ algorithm = NoAlgorithm
    /\ heuristic = "NONE"
    /\ pc = "oracle"
    /\ walls = {}
    /\ goals = {}
    /\ initial_state = [player_pos |-> <<0, 0>>, boxes |-> {}]
    /\ cur = [player_pos |-> <<0, 0>>, boxes |-> {}]
    /\ nodes = <<>>
    /\ closed = {}
    /\ best_costs = <<>>
    /\ nodes_expanded = 0
    /\ max_frontier_size = 0
    /\ result = NoResult
    /\ returned = 0
    /\ pushed = <<>>
    /\ heur_evals = 0
    /\ expanded_nodes = <<>>
    /\ pruning = FALSE
    /\ exit_code = -1
    /\ h_values = <<>>
    /\ oracle = <<>>
    /\ first_result = NoResult
    /\ _aisle_cache = <<>>
    /\ cache_keys = keys
    /\ callers = [t \in threads |-> NoCall]

\* one caller asking again and again about the (walls, goals) of one map
InitAisle == \E key \in AisleKeys : InitOracle({key}, {1})

SpecAisle == InitAisle /\ [][NextAisle]_vars

\* several threads asking about the (walls, goals) of a few maps
InitThreads == InitOracle({ KeyOf(Maps[i]) : i \in 1..NumKeys }, 1..NumThreads)

SpecThreads == InitThreads /\ [][NextAisle]_vars

-----------------------------------------------------------------------------
(* Reference notions the properties are stated with: the rules of the game *)

\* the unit vector an action label names; a push is labelled with its direction
DirectionNamed(action) ==
    CASE action \in {"UP", "UP_PUSH"}       -> <<-1, 0>>
      [] action \in {"DOWN", "DOWN_PUSH"}   -> <<1, 0>>
      [] action \in {"LEFT", "LEFT_PUSH"}   -> <<0, -1>>
      [] action \in {"RIGHT", "RIGHT_PUSH"} -> <<0, 1>>
      [] OTHER                              -> <<0, 0>>

Shift(pos, v) == <<pos[1] + v[1], pos[2] + v[2]>>

\* the player may step by v: the cell entered is no wall, and a box standing there has
\* a free cell behind it
Legal(state, v) ==
    /\ Shift(state.player_pos, v) \notin walls
    /\ Shift(state.player_pos, v) \in state.boxes =>
           /\ Shift(Shift(state.player_pos, v), v) \notin walls
           /\ Shift(Shift(state.player_pos, v), v) \notin state.boxes

\* the state after the player steps by v, pushing the box in front when there is one
Moved(state, v) ==
    [player_pos |-> Shift(state.player_pos, v),
     boxes      |-> IF Shift(state.player_pos, v) \in state.boxes
                    THEN (state.boxes \ {Shift(state.player_pos, v)})
                             \cup {Shift(Shift(state.player_pos, v), v)}
                    ELSE state.boxes]

UnitVectors == { <<-1, 0>>, <<1, 0>>, <<0, -1>>, <<0, 1>> }

\* the states one legal move or push away
LegalNext(state) == { Moved(state, v) : v \in { w \in UnitVectors : Legal(state, w) } }

\* the states one generated successor away
GeneratedNext(state) ==
    { get_successors(state)[i].state : i \in 1..Len(get_successors(state)) }

\* length of the shortest chain of steps from a state of `layer` to a goal state, the
\* states of `seen` being at most k steps from the start; -1 when there is none.
\* pruned selects the generated successors instead of the legal moves.
RECURSIVE Layers(_, _, _, _)
Layers(layer, seen, k, pruned) ==
    IF layer = {} THEN -1
    ELSE IF \E st \in layer : st.boxes = goals THEN k
    ELSE LET next == UNION { IF pruned THEN GeneratedNext(st) ELSE LegalNext(st) :
                             st \in layer } \ seen
         IN  Layers(next, seen \cup next, k + 1, pruned)

\* the length of the shortest legal solution of the puzzle loaded, -1 when unsolvable
ShortestSolution == Layers({initial_state}, {initial_state}, 0, FALSE)

\* the same over the successors get_successors generates: the cost a breadth-first
\* search over them returns
ShortestGenerated == Layers({initial_state}, {initial_state}, 0, TRUE)

Ran(type) == pc = "done" /\ algorithm.type = type

-----------------------------------------------------------------------------
(* Properties *)

\* C1: a successful result has as many actions as states, starts with START and the
\* initial state, ends in a goal state, and its cost is the number of steps, which is
\* the cost of the node returned.
C1_SuccessShape ==
    result.success =>
        /\ Len(result.states_path) = Len(result.actions_path)
        /\ Len(result.states_path) >= 1
        /\ result.actions_path[1] = "START"
        /\ result.states_path[1] = initial_state
        /\ result.states_path[Len(result.states_path)].boxes = goals
        /\ result.cost = Len(result.states_path) - 1
        /\ result.cost = nodes[returned].cost

C1_Witness ==
    /\ result.success
    /\ result.cost >= 3
    /\ algorithm.type = "IDDFS"

\* C2: replaying the actions of a successful result from the initial state gives the
\* states of the result one by one, every step a legal move or push in the direction
\* the action names, and the replay ends in a goal state.
C2_Replay ==
    result.success =>
        /\ result.states_path[1] = initial_state
        /\ \A i \in 2..Len(result.states_path) :
              /\ DirectionNamed(result.actions_path[i]) \in UnitVectors
              /\ Legal(result.states_path[i - 1], DirectionNamed(result.actions_path[i]))
              /\ result.states_path[i] =
                     Moved(result.states_path[i - 1], DirectionNamed(result.actions_path[i]))
        /\ result.states_path[Len(result.states_path)].boxes = goals

C2_Witness ==
    /\ result.success
    /\ \E i \in 2..Len(result.states_path) :
           result.states_path[i].boxes # result.states_path[i - 1].boxes
    /\ \E i \in 2..Len(result.states_path) :
           result.states_path[i].boxes = result.states_path[i - 1].boxes

\* C3: whenever the puzzle has a solution, BFS returns success with the length of the
\* shortest legal solution as its cost.
C3_BFSOptimal ==
    (Ran("BFS") /\ ShortestSolution >= 0) =>
        (result.success /\ result.cost = ShortestSolution)

\* C4: on a solvable puzzle A* with the PERFECTMATCH heuristic returns success with the
\* cost BFS returns on that puzzle (stated for the puzzles on which BFS returns one).
C4_AStarMatchesBFS ==
    (Ran("ASTAR") /\ heuristic = "PERFECTMATCH" /\ ShortestSolution >= 0
         /\ ShortestGenerated >= 0) =>
        (result.success /\ result.cost = ShortestGenerated)

\* C5: on a solvable puzzle a breadth-first search over the successors generated with
\* the deadlock oracle finds the same cost as one over the legal moves and pushes.
C5_PruningKeepsOptimum ==
    (pc = "loaded" /\ ShortestSolution >= 0) => ShortestGenerated = ShortestSolution

\* the search has returned, and what it returned on an unsolvable puzzle is a Failure
ReturnedProperly ==
    IF pc = "done"
    THEN IF ShortestSolution < 0 THEN result.kind = "failure" ELSE TRUE
    ELSE FALSE

\* C6: a search that was started returns, for each strategy, and on an unsolvable
\* puzzle what it returns is a Failure.
C6_Terminates == (pc = "ready") ~> ReturnedProperly

C6_Witness ==
    /\ Ran("IDDFS")
    /\ result.kind = "failure"
    /\ algorithm.current_depth_limit > INITIAL_DEPTH_LIMIT + DEPTH_INCREMENT

\* C7: in every state reached from a loaded map by successor steps the player is on
\* no wall and no box, no box is on a wall, and there are as many boxes as goals.
C7_StateInvariant ==
    pc = "loaded" =>
        /\ cur.player_pos \notin walls
        /\ cur.player_pos \notin cur.boxes
        /\ cur.boxes \cap walls = {}
        /\ Cardinality(cur.boxes) = Cardinality(goals)

C7_Witness ==
    /\ pc = "loaded"
    /\ cur.boxes # initial_state.boxes
    /\ cur.player_pos \in initial_state.boxes

\* C8: the successor generated for direction d has the player one cell further in d and
\* either the same boxes (no box in the cell entered) or the box of the cell entered
\* moved one cell in d; a push into a wall or another box generates no successor.
C8_SuccessorShape ==
    pc = "loaded" =>
        \A i \in 1..4 :
            LET v    == <<directions[i][1], directions[i][2]>>
                p    == <<cur.player_pos[1] + v[1], cur.player_pos[2] + v[2]>>
                b    == <<p[1] + v[1], p[2] + v[2]>>
                succ == SuccessorsIn(cur, directions[i])
            IN  /\ Len(succ) <= 1
                /\ \A k \in 1..Len(succ) :
                      /\ succ[k].state.player_pos = p
                      /\ \/ p \notin cur.boxes /\ succ[k].state.boxes = cur.boxes
                         \/ p \in cur.boxes /\ succ[k].state.boxes = (cur.boxes \ {p}) \cup {b}
                /\ (p \in cur.boxes /\ (b \in walls \/ b \in cur.boxes)) => succ = <<>>

C8_Witness ==
    /\ pc = "loaded"
    /\ \E i \in 1..4 :
           /\ Len(SuccessorsIn(cur, directions[i])) = 1
           /\ SuccessorsIn(cur, directions[i])[1].state.boxes # cur.boxes
    /\ \E i \in 1..4 :
           /\ new_player_pos(cur, directions[i]) \in cur.boxes
           /\ new_box_pos(cur, directions[i]) \in walls \cup cur.boxes

\* C9: on an initial state that is a goal state search returns success with cost 0, the
\* initial state alone as its path and START as its only action, whatever the strategy,
\* and neither the frontier nor the heuristic was used.
C9_AlreadySolved ==
    (pc = "done" /\ initial_state.boxes = goals) =>
        /\ result.success
        /\ result.cost = 0
        /\ result.states_path = <<initial_state>>
        /\ result.actions_path = <<"START">>
        /\ algorithm = NewAlgorithm(algorithm.type)
        /\ pushed = <<>>
        /\ heur_evals = 0

C9_Witness ==
    /\ Ran("ASTAR")
    /\ initial_state.boxes = goals
    /\ heuristic # "NONE"

\* C10: in a search of BFS, DFS, IDDFS or Greedy no two nodes handed to the frontier
\* hold the same state.
C10_PushedOnce ==
    ~ should_cache_cost(algorithm) =>
        \A i, j \in 1..Len(pushed) :
            i # j => nodes[pushed[i]].state # nodes[pushed[j]].state

C10_Witness ==
    /\ pc = "without_cache"
    /\ Len(pushed) >= 4
    /\ has_next(algorithm)
    /\ get_next(algorithm).item # 0
    /\ \E i \in 1..Len(get_successors(nodes[get_next(algorithm).item].state)) :
           get_successors(nodes[get_next(algorithm).item].state)[i].state \in closed

\* C12: with None for the strategy, or with a strategy that needs a heuristic and no
\* heuristic, the constructor raises: the engine never exists, so no search starts, no
\* node is created and no result is returned.
C12_ConstructionRejected ==
    (algorithm = NoAlgorithm \/ (needs_heuristic(algorithm) /\ heuristic = "NONE")) =>
        /\ pc \in {"load", "loaded", "error", "exited"}
        /\ nodes = <<>>
        /\ pushed = <<>>
        /\ result = NoResult

C12_Witness ==
    /\ pc = "error"
    /\ walls # {}
    /\ algorithm.type = "ASTAR"
    /\ heuristic = "NONE"

\* a strategy that needs no heuristic was handed one
SpareHeuristic ==
    /\ algorithm # NoAlgorithm
    /\ ~ needs_heuristic(algorithm)
    /\ heuristic # "NONE"

C14_GoalNeverDeadlock ==
    (pc = "queried" /\ oracle.box_pos \in goals) =>
        /\ ~ oracle.heuristic
        /\ ~ oracle.successor

\* a goal in a corner, with a box on it and a wall on two sides
C14_Witness ==
    /\ pc = "queried"
    /\ oracle.box_pos \in goals
    /\ oracle.box_pos \in cur.boxes
    /\ <<oracle.box_pos[1] - 1, oracle.box_pos[2]>> \in walls
    /\ <<oracle.box_pos[1], oracle.box_pos[2] - 1>> \in walls

\* C15: the sum over the boxes of the Manhattan distance to the nearest goal is never
\* more than the number of steps of the shortest solution from the state.
C15_ManhattanAdmissible ==
    (pc = "calculated" /\ ShortestSolution >= 0) =>
        h_values["MANHATTAN"] <= ShortestSolution

\* a solvable state whose estimate is positive and below the cost
C15_Witness ==
    /\ pc = "calculated"
    /\ h_values["MANHATTAN"] >= 1
    /\ ShortestSolution > h_values["MANHATTAN"]

\* C16: each of the four heuristics returns 0 on a state whose boxes are all on goals,
\* and never a negative value on any state.
C16_ZeroOnGoalNeverNegative ==
    pc = "calculated" =>
        \A h \in AllHeuristicNames :
            /\ h_values[h] >= 0
            /\ is_goal(cur) => h_values[h] = 0

\* a goal state whose box sits in a corner, the player one step or more away
C16_Witness ==
    /\ pc = "calculated"
    /\ is_goal(cur)
    /\ cur.boxes # {}
    /\ cur.player_pos \notin goals
    /\ \A h \in AllHeuristicNames : h_values[h] = 0

\* f = g + h of a node under the PERFECTMATCH heuristic
F_PerfectMatch(node) == node.cost + calculate("PERFECTMATCH", node.state)

\* C17: when A* with the PERFECTMATCH heuristic has returned, no node it expanded has
\* f = g + h above the length of the shortest solution (stated for the puzzles whose
\* shortest solution is also the shortest over the successors generated).
C17_NoExpansionBeyondOptimum ==
    (Ran("ASTAR") /\ heuristic = "PERFECTMATCH"
         /\ ShortestSolution >= 0 /\ ShortestGenerated = ShortestSolution) =>
        \A i \in 1..Len(expanded_nodes) :
            F_PerfectMatch(nodes[expanded_nodes[i]]) <= ShortestSolution

C19_SyntacticWithoutPruning ==
    (pc = "loaded" /\ ~ pruning) => GeneratedNext(cur) = LegalNext(cur)

\* C20: the solver command ends with exit code 0 exactly when the run completed without
\* an error, that is when the search returned a result (a solution or none); a map the
\* loader rejects, a constructor that raises and a search that raises end it nonzero.
C20_ExitCodeTellsError ==
    pc = "exited" => (exit_code = 0 <=> result.kind \in {"success", "failure"})

\* C21: on every solvable puzzle A* with the MANHATTAN heuristic returns success with
\* the length of the shortest legal solution as its cost.
C21_AStarManhattanOptimal ==
    (Ran("ASTAR") /\ heuristic = "MANHATTAN" /\ ShortestSolution >= 0) =>
        (result.success /\ result.cost = ShortestSolution)

\* the strategies of the plain loop
PlainStrategies == {"BFS", "DFS", "IDDFS", "GREEDY"}

\* C22: with BFS, DFS, IDDFS or Greedy, a search started on a puzzle with a goal state
\* reachable through the successor function returns success: Failure is returned only
\* when no goal state is reachable.
C22_FailureOnlyWhenUnreachable ==
    (pc = "ready" /\ algorithm.type \in PlainStrategies /\ ShortestGenerated >= 0)
        ~> (pc = "done" /\ result.success)

\* IDDFS returned a solution after it had raised its depth limit
C22_Witness ==
    /\ Ran("IDDFS")
    /\ result.success
    /\ algorithm.current_depth_limit > INITIAL_DEPTH_LIMIT

\* C23 as claimed: in the plain loop the goal test is applied when a successor is
\* generated: no node holding a goal state is ever handed to the frontier, and when
\* success is returned the node whose expansion generated the goal is the last one
\* expanded.
C23_GoalTestedOnGeneration ==
    (algorithm.type \in PlainStrategies /\ pc \in {"without_cache", "done"}) =>
        /\ \A i \in 1..Len(pushed) : ~ is_goal(nodes[pushed[i]].state)
        /\ (pc = "done" /\ result.success /\ returned # 1) =>
               nodes[returned].parent = Last(expanded_nodes)

\* C23 amended: in the plain loop the goal test is applied when a node is popped: a
\* node holding a goal state is handed to the frontier like any other, the node
\* returned is one that was handed to the frontier (unless the initial state is the
\* goal), no expanded node holds a goal state and the result counts the nodes expanded
\* before the pop that returned.
C23_GoalTestedOnPop ==
    (algorithm.type \in PlainStrategies /\ pc \in {"without_cache", "done"}) =>
        /\ \A i \in 1..Len(expanded_nodes) : ~ is_goal(nodes[expanded_nodes[i]].state)
        /\ (pc = "done" /\ result.success) =>
               /\ is_goal(nodes[returned].state)
               /\ (\E i \in 1..Len(pushed) : pushed[i] = returned)
                      <=> ~ is_goal(initial_state)
               /\ result.nodes_expanded = Len(expanded_nodes)

\* a goal node waited in the frontier while a node generated before it was expanded
C23_Witness ==
    /\ algorithm.type \in PlainStrategies
    /\ pc = "done"
    /\ result.success
    /\ returned # 1
    /\ nodes[returned].parent # Last(expanded_nodes)

\* C24: a pass of the cost-caching loop that pops a node whose g is above the best g
\* recorded for its state changes nothing but the frontier: no goal test and no result,
\* no state closed, no successor generated, no expansion counted.  A pass that pops any
\* other node expands it or returns it as the goal, and its g is then equal to the best
\* g recorded for its state.
C24_StaleDiscarded ==
    [][(pc = "with_cache" /\ has_next(algorithm)) =>
           LET n == nodes[get_next(algorithm).item]
           IN  IF n.cost > best_costs[n.state]
               THEN /\ pc' = "with_cache"
                    /\ algorithm' = get_next(algorithm).alg
                    /\ UNCHANGED <<nodes, closed, best_costs, nodes_expanded,
                                   max_frontier_size, result, returned, pushed,
                                   heur_evals, expanded_nodes>>
               ELSE /\ n.cost = best_costs[n.state]
                    /\ n.state \in closed'
                    /\ \/ nodes_expanded' = nodes_expanded + 1
                       \/ pc' = "done" /\ result'.success]_vars

\* a node that was popped and discarded: it was handed to the frontier, is no longer
\* there, was not expanded and is not the one returned
C24_Witness ==
    /\ algorithm.type = "ASTAR"
    /\ pc \in {"with_cache", "done"}
    /\ \E i \in 1..Len(pushed) :
           /\ nodes[pushed[i]].cost > best_costs[nodes[pushed[i]].state]
           /\ \A x \in algorithm.pq : x[4] # pushed[i]
           /\ \A j \in 1..Len(expanded_nodes) : expanded_nodes[j] # pushed[i]
           /\ returned # pushed[i]

\* the lowest g of the nodes generated for state st
LowestG(st) ==
    LET gs == { nodes[i].cost : i \in { j \in 1..Len(nodes) : nodes[j].state = st } }
    IN  CHOOSE g \in gs : \A e \in gs : g <= e

\* C25: in the cost-caching search best_costs of the initial state is 0, best_costs of
\* a state is the lowest g of the nodes generated for it, each node pushed for a state
\* has a g strictly below that of every node pushed for it before (so best_costs never
\* increases), and every frontier node has g >= best_costs of its state.
C25_BestIsLowest ==
    (algorithm.type = "ASTAR" /\ pc \in {"with_cache", "done"} /\ nodes # <<>>
         /\ ~ is_goal(initial_state)) =>
        /\ best_costs[initial_state] = 0
        /\ DOMAIN best_costs = { nodes[i].state : i \in 1..Len(nodes) }
        /\ \A st \in DOMAIN best_costs : best_costs[st] = LowestG(st)
        /\ \A i, j \in 1..Len(pushed) :
               (i < j /\ nodes[pushed[i]].state = nodes[pushed[j]].state) =>
                   nodes[pushed[j]].cost < nodes[pushed[i]].cost
        /\ \A x \in algorithm.pq : nodes[x[4]].cost >= best_costs[nodes[x[4]].state]

\* a state was generated again with a lower g while its first node was in the frontier
C25_Witness ==
    /\ algorithm.type = "ASTAR"
    /\ pc = "with_cache"
    /\ \E x \in algorithm.pq : nodes[x[4]].cost > best_costs[nodes[x[4]].state]

\* f, h and the place in the order of insertion of node n, from the node itself
HOf(n) == calculate(heuristic, nodes[n].state)

FOf(n) == nodes[n].cost + HOf(n)

InsertedAt(n) == CHOOSE i \in 1..Len(pushed) : pushed[i] = n

\* node m goes before node n: smaller f, then smaller h, then inserted earlier
GoesBefore(m, n) ==
    \/ FOf(m) < FOf(n)
    \/ FOf(m) = FOf(n) /\ HOf(m) < HOf(n)
    \/ FOf(m) = FOf(n) /\ HOf(m) = HOf(n) /\ InsertedAt(m) < InsertedAt(n)

\* C26: the node A* pops goes before every other frontier node in the order smallest
\* f = g + h, then smaller h, then earlier insertion; the ticks of the frontier entries
\* are all different, below the counter and in the order of insertion, so two entries
\* never tie on (f, h, tick).
C26_PopOrder ==
    (algorithm.type = "ASTAR" /\ pc = "with_cache" /\ algorithm.pq # {}) =>
        /\ \A y \in algorithm.pq :
               y[4] # get_next(algorithm).item => GoesBefore(get_next(algorithm).item, y[4])
        /\ \A x, y \in algorithm.pq :
               /\ x[3] < algorithm.tie
               /\ x # y => x[3] # y[3]
               /\ x[3] < y[3] <=> InsertedAt(x[4]) < InsertedAt(y[4])

\* a pop decided by the order of insertion, with a third node of the same f and a
\* larger h in the frontier
C26_Witness ==
    /\ algorithm.type = "ASTAR"
    /\ pc = "with_cache"
    /\ algorithm.pq # {}
    /\ \E y, z \in algorithm.pq :
           /\ y[4] # get_next(algorithm).item
           /\ FOf(y[4]) = FOf(get_next(algorithm).item)
           /\ HOf(y[4]) = HOf(get_next(algorithm).item)
           /\ FOf(z[4]) = FOf(get_next(algorithm).item)
           /\ HOf(z[4]) > HOf(get_next(algorithm).item)

\* the nodes handed to AStar.add whose heuristic value is finite
AcceptedPushes == { i \in 1..Len(pushed) : HOf(pushed[i]) # np_inf }

\* C27: in an A* search a node whose heuristic value is infinite never enters the
\* frontier: the frontier holds, and the insertion counter counts, only the pushes with
\* a finite value, no expanded and no returned node has an infinite value, and when
\* the initial state has one the search returns Failure with nodes_expanded = 0.
C27_InfiniteNeverPushed ==
    (algorithm.type = "ASTAR" /\ pc \in {"with_cache", "done"}) =>
        /\ algorithm.tie = Cardinality(AcceptedPushes)
        /\ \A x \in algorithm.pq : HOf(x[4]) # np_inf /\ x[1] < np_inf
        /\ size(algorithm) <= Cardinality(AcceptedPushes) - Len(expanded_nodes)
        /\ \A i \in 1..Len(expanded_nodes) : HOf(expanded_nodes[i]) # np_inf
        /\ (pc = "done" /\ result.success) => HOf(returned) # np_inf
        /\ (pc = "done" /\ calculate(heuristic, initial_state) = np_inf) =>
               /\ result.kind = "failure"
               /\ result.nodes_expanded = 0
               /\ result.max_frontier_size = 0

\* a search that went on to a solution after a push with an infinite value was rejected
C27_Witness ==
    /\ Ran("ASTAR")
    /\ result.success
    /\ Cardinality(AcceptedPushes) < Len(pushed)

\* C28: at every point of an IDDFS search has_next() is true exactly when size() > 0,
\* get_next() returns a node whenever has_next() is true, and the overflow flag is set
\* exactly when some depth bucket holds a node.
C28_IDDFSFrontierConsistent ==
    (algorithm.type = "IDDFS" /\ pc \in {"without_cache", "done"}) =>
        /\ has_next(algorithm) <=> size(algorithm) > 0
        /\ has_next(algorithm) => get_next(algorithm).item # 0
        /\ algorithm.max_depth_reached <=>
               \E d \in DOMAIN algorithm.items_at_depth :
                   algorithm.items_at_depth[d] # <<>>

\* the stack is empty and the nodes left are in a depth bucket
C28_Witness ==
    /\ algorithm.type = "IDDFS"
    /\ pc = "without_cache"
    /\ algorithm.stack = <<>>
    /\ algorithm.max_depth_reached
    /\ size(algorithm) > 0

\* C29: IDDFS never pops a node deeper than the depth limit in force at the pop: the
\* stack holds only nodes of depth <= limit, a deeper node waits in the bucket of its
\* depth with the overflow flag set, and the node a pop returns is within the limit the
\* pop leaves.
C29_PopWithinLimit ==
    (algorithm.type = "IDDFS" /\ pc = "without_cache") =>
        /\ \A i \in 1..Len(algorithm.stack) :
               _get_node_depth(algorithm.stack[i], nodes) <= algorithm.current_depth_limit
        /\ \A d \in DOMAIN algorithm.items_at_depth :
               /\ d > algorithm.current_depth_limit
               /\ algorithm.max_depth_reached
               /\ \A i \in 1..Len(algorithm.items_at_depth[d]) :
                      _get_node_depth(algorithm.items_at_depth[d][i], nodes) = d
        /\ has_next(algorithm) =>
               _get_node_depth(get_next(algorithm).item, nodes)
                   <= get_next(algorithm).alg.current_depth_limit
        /\ \A i \in 1..Len(expanded_nodes) :
               _get_node_depth(expanded_nodes[i], nodes) <= algorithm.current_depth_limit

\* the next pop returns a node that was held back: deeper than the limit before the
\* pop, within the limit after it
C29_Witness ==
    /\ algorithm.type = "IDDFS"
    /\ pc = "without_cache"
    /\ has_next(algorithm)
    /\ _get_node_depth(get_next(algorithm).item, nodes) > algorithm.current_depth_limit
    /\ _get_node_depth(get_next(algorithm).item, nodes)
           <= get_next(algorithm).alg.current_depth_limit

\* the nodes held in the depth buckets of a up to depth limit
Bucketed(a, limit) ==
    UNION { { a.items_at_depth[d][i] : i \in 1..Len(a.items_at_depth[d]) } :
            d \in { e \in DOMAIN a.items_at_depth : e <= limit } }

\* C30: the IDDFS depth limit is 50 before the search, never decreases and changes
\* only by +5, in a pop made with the stack empty and the overflow flag set; such a
\* pop always raises it, moves every bucketed node of depth <= the new limit onto the
\* stack, clears the flag and returns one of the nodes moved.
C30_LimitRaisedByFive ==
    [][algorithm.type = "IDDFS" =>
          /\ pc \in {"load", "loaded", "ready"} => algorithm.current_depth_limit = 50
          /\ algorithm'.current_depth_limit
                 \in {algorithm.current_depth_limit, algorithm.current_depth_limit + 5}
          /\ (algorithm'.current_depth_limit # algorithm.current_depth_limit) <=>
                 (pc = "without_cache" /\ algorithm.stack = <<>>
                      /\ algorithm.max_depth_reached)
          /\ (algorithm'.current_depth_limit # algorithm.current_depth_limit) =>
                 LET po    == get_next(algorithm)
                     moved == Bucketed(algorithm, algorithm.current_depth_limit + 5)
                 IN  /\ po.alg.current_depth_limit = algorithm.current_depth_limit + 5
                     /\ ~ po.alg.max_depth_reached
                     /\ moved # {}
                     /\ po.item \in moved
                     /\ { po.alg.stack[i] : i \in 1..Len(po.alg.stack) } \cup {po.item}
                            = moved
                     /\ Bucketed(po.alg, algorithm.current_depth_limit + 5) = {}]_vars

\* the limit has been raised twice and the nodes moved are on the stack
C30_Witness ==
    /\ algorithm.type = "IDDFS"
    /\ pc = "without_cache"
    /\ algorithm.current_depth_limit = 60
    /\ algorithm.stack # <<>>

\* the root node of the search() call under way: the root made last
CurrentRoot == CHOOSE i \in Roots : \A j \in Roots : j <= i

\* C31: when search() is called again on an engine whose search has returned, no node
\* of the earlier search is popped (every node expanded or returned descends from the
\* root of the call under way) and the call returns the result a search on a fresh
\* engine returns, which is the result of the engine's first call.
C31_SecondSearchAsFresh ==
    Cardinality(Roots) >= 2 =>
        /\ \A i \in DOMAIN expanded_nodes :
               Last(ChainOf(nodes, expanded_nodes[i])) = CurrentRoot
        /\ returned # 0 => Last(ChainOf(nodes, returned)) = CurrentRoot
        /\ pc \in {"done", "error"} => result = first_result

\* C32: with pruning on, a push after which the pushed box stands in a 2x2 block of four
\* boxes none of which is on a goal is not among the successors generated.
C32_SquarePushNotEmitted ==
    (pc = "loaded" /\ pruning) =>
        \A v \in UnitVectors :
            ( /\ Legal(cur, v)
              /\ Shift(cur.player_pos, v) \in cur.boxes
              /\ _is_square_deadlock(Shift(Shift(cur.player_pos, v), v),
                                     Moved(cur, v).boxes, goals) )
                => Moved(cur, v) \notin GeneratedNext(cur)

\* the cells walked from pos by steps of t up to the cell in front of a wall
RECURSIVE Walk(_, _)
Walk(pos, t) == {pos} \cup (IF Shift(pos, t) \in walls THEN {} ELSE Walk(Shift(pos, t), t))

\* the segment of pos along the wall on side w: walked both ways along the wall, each
\* way up to the corner where a wall stands in the way
Segment(pos, w) == Walk(pos, <<w[2], w[1]>>) \cup Walk(pos, <<0 - w[2], 0 - w[1]>>)

\* pos is flush against a wall on side w that has no gap along the segment, and no cell
\* of the segment is a goal
ClosedSegment(pos, w) ==
    /\ Shift(pos, w) \in walls
    /\ \A x \in Segment(pos, w) : Shift(x, w) \in walls /\ x \notin goals

\* C33: the wall-segment detector reports a deadlock only for a cell flush against a
\* wall, on one of the four sides, that is continuous along the segment between the two
\* corners, with no goal in the segment; a gap in the wall on a side rules that side out.
C33_DoorMeansNoDeadlock ==
    (pc = "queried" /\ oracle.between_corners) =>
        \E w \in UnitVectors : ClosedSegment(oracle.box_pos, w)

\* C34: the DEADLOCK heuristic is infinite exactly when some box of the state is in a
\* corner deadlock (D1) or in a block of four boxes (D2), and is the Manhattan value
\* otherwise.
C34_InfiniteOnlyCornerOrSquare ==
    pc = "calculated" =>
        h_values["DEADLOCK"] =
            IF \E box \in cur.boxes :
                   \/ Heuristic_is_corner_deadlock(box, walls, goals)
                   \/ Heuristic_is_square_deadlock(box, cur.boxes, goals)
            THEN np_inf
            ELSE h_values["MANHATTAN"]

\* C35: A* with the DEADLOCK heuristic returns Failure only on puzzles that have no
\* solution by legal moves and pushes.
C35_DeadlockHeuristicSound ==
    (Ran("ASTAR") /\ heuristic = "DEADLOCK" /\ result.kind = "failure") =>
        ShortestSolution = -1

\* the cell lies outside the rectangle spanned by the walls and goals
Outside(p, W, G) ==
    LET b == _bounds(W, G)
    IN  p[1] < b[1] \/ p[1] > b[2] \/ p[2] < b[3] \/ p[2] > b[4]

\* the non-wall cells of the rectangle spanned by the walls and goals
FloorOf(W, G) ==
    LET b == _bounds(W, G)
    IN  ((b[1]..b[2]) \X (b[3]..b[4])) \ W

\* number of the four neighbours of p that are walls or cells of P, the neighbours
\* outside the rectangle counted too when beyond is set
BlockedAround(p, P, W, G, beyond) ==
    Cardinality({ v \in UnitVectors :
                    \/ Shift(p, v) \in W \cup P
                    \/ beyond /\ Outside(Shift(p, v), W, G) })

\* P is closed under the marking rule and holds nothing the rule does not support
MarkingFixedPoint(P, W, G, beyond) ==
    /\ P \cap W = {}
    /\ P \cap G = {}
    /\ \A p \in P : p \in FloorOf(W, G) /\ BlockedAround(p, P, W, G, beyond) >= 3
    /\ \A p \in FloorOf(W, G) \ (P \cup G) : BlockedAround(p, P, W, G, beyond) < 3

\* C36 as stated: every set a query returns holds no wall and no goal, each of its
\* cells is a non-goal floor cell with at least 3 neighbours that are walls or cells of
\* the set, no other non-goal floor cell has 3 such neighbours, and from the first
\* query on the cache holds this set for the key and a later query returns it.
C36_AisleFixedPoint ==
    \A t \in DOMAIN callers :
        callers[t].pc = "returned" =>
            /\ MarkingFixedPoint(callers[t].pruned_cells, callers[t].key[1],
                                 callers[t].key[2], FALSE)
            /\ callers[t].key \in DOMAIN _aisle_cache
            /\ _aisle_cache[callers[t].key] = callers[t].pruned_cells

\* C36, amended: the same with a neighbour outside the rectangle spanned by the walls
\* and goals counted as blocked, like a wall.
C36_AisleFixedPointWithin ==
    \A t \in DOMAIN callers :
        callers[t].pc = "returned" =>
            /\ MarkingFixedPoint(callers[t].pruned_cells, callers[t].key[1],
                                 callers[t].key[2], TRUE)
            /\ callers[t].key \in DOMAIN _aisle_cache
            /\ _aisle_cache[callers[t].key] = callers[t].pruned_cells

\* a query answered from the cache with a set holding a cell the rule marked only
\* after a neighbour of it had been marked
C36_Witness ==
    \E t \in DOMAIN callers :
        /\ callers[t].pc = "returned"
        /\ callers[t].cached
        /\ \E p \in callers[t].pruned_cells :
               BlockedAround(p, {}, callers[t].key[1], callers[t].key[2], TRUE) < 3

\* C37: with several threads inside _get_aisle_pruned_cells at once, on the same key or
\* on different keys, every call returns the set a call made alone computes for its
\* key, and a cache entry, once written, keeps its value.
C37_CacheSafeUnderThreads ==
    [][ /\ \A t \in DOMAIN callers :
              callers'[t].pc = "returned" =>
                  callers'[t].pruned_cells =
                      AisleLoop(callers'[t].key[1], callers'[t].key[1], callers'[t].key[2])
                          \ callers'[t].key[1]
        /\ \A k \in DOMAIN _aisle_cache :
              k \in DOMAIN _aisle_cache' /\ _aisle_cache'[k] = _aisle_cache[k] ]_vars

\* two threads have both missed the same key, both computed and both written the entry
C37_Witness ==
    \E t, u \in DOMAIN callers :
        /\ t # u
        /\ callers[t].pc = "returned" /\ ~ callers[t].cached
        /\ callers[u].pc = "returned" /\ ~ callers[u].cached
        /\ callers[t].key = callers[u].key
        /\ callers[t].pruned_cells # {}
        /\ Cardinality(DOMAIN _aisle_cache) >= 2

\* C38: nodes_expanded is 0 when a search() call starts, the first on an engine or a
\* later one; a pass of either loop adds exactly 1 when the node popped is no goal and
\* no stale entry (g above the best g known for its state, cost-caching loop only) and
\* adds nothing otherwise, so the pop that returns the goal is not counted; successors
\* are made only in a pass that counts; the result reports the counter.
C38_ExpandedCountsExpansions ==
    [][ /\ Cardinality(Roots') > Cardinality(Roots) => nodes_expanded' = 0
        /\ (pc \in {"without_cache", "with_cache"} /\ has_next(algorithm)) =>
               LET item == get_next(algorithm).item
               IN  IF item = 0 THEN nodes_expanded' = nodes_expanded
                   ELSE LET goal  == nodes[item].state.boxes = goals
                            stale == /\ pc = "with_cache"
                                     /\ nodes[item].state \in DOMAIN best_costs
                                     /\ nodes[item].cost > best_costs[nodes[item].state]
                        IN  /\ nodes_expanded' =
                                   nodes_expanded + (IF goal \/ stale THEN 0 ELSE 1)
                            /\ (goal /\ ~ stale) => pc' = "done" /\ result'.success
                            /\ nodes' # nodes => nodes_expanded' = nodes_expanded + 1
        /\ (pc \in {"without_cache", "with_cache"} /\ ~ has_next(algorithm)) =>
               nodes_expanded' = nodes_expanded
        /\ result'.kind \in {"success", "failure"} =>
               result'.nodes_expanded = nodes_expanded' ]_vars

\* a second search() call on an engine whose first call expanded nodes has itself
\* expanded nodes, fewer than the first call, and returned on a goal pop
C38_Witness ==
    /\ Cardinality(Roots) = 2
    /\ first_result.nodes_expanded > 0
    /\ pc = "done"
    /\ result.success
    /\ result.nodes_expanded > 0
    /\ result.nodes_expanded < first_result.nodes_expanded

\* the items a frontier holds, wherever it keeps them
Held(a) ==
    CASE a.type = "BFS"    -> { a.queue[i] : i \in DOMAIN a.queue }
      [] a.type = "DFS"    -> { a.stack[i] : i \in DOMAIN a.stack }
      [] a.type = "IDDFS"  -> { a.stack[i] : i \in DOMAIN a.stack } \cup
                              UNION { { a.items_at_depth[d][i] : i \in DOMAIN a.items_at_depth[d] } :
                                      d \in DOMAIN a.items_at_depth }
      [] a.type = "GREEDY" -> { a.nodes[i][2] : i \in DOMAIN a.nodes }
      [] a.type = "ASTAR"  -> { x[4] : x \in a.pq }
      [] OTHER             -> {}

\* C39: max_frontier_size is the running maximum of the frontier's size.  The step that
\* starts a search leaves it at the number of items the frontier then holds; every
\* later step of the search leaves it at the larger of its old value and the number of
\* items held after the step (for IDDFS the stack and every depth bucket), so it never
\* decreases and is never below the current size; and the result reports it.
C39_MaxFrontierIsRunningMax ==
    [][ /\ Cardinality(Roots') > Cardinality(Roots) =>
               max_frontier_size' = Cardinality(Held(algorithm'))
        /\ pc \in {"without_cache", "with_cache"} =>
               /\ max_frontier_size' >= max_frontier_size
               /\ max_frontier_size' >= Cardinality(Held(algorithm'))
               /\ max_frontier_size' \in {max_frontier_size, Cardinality(Held(algorithm'))}
        /\ result'.kind \in {"success", "failure"} =>
               result'.max_frontier_size = max_frontier_size' ]_vars

\* an IDDFS search that put nodes into depth buckets has ended, and the size reported is
\* larger than what the frontier holds at the end
C39_Witness ==
    /\ pc = "done"
    /\ algorithm.type = "IDDFS"
    /\ algorithm.current_depth_limit > INITIAL_DEPTH_LIMIT
    /\ result.kind \in {"success", "failure"}
    /\ result.max_frontier_size > Cardinality(Held(algorithm))
    /\ result.max_frontier_size > 1
    /\ nodes_expanded > INITIAL_DEPTH_LIMIT

\* C40: whenever the Greedy frontier is about to be popped, the node it returns has the
\* smallest heuristic value of all nodes held, the values being those of the states as
\* computed at the push; every node pushed is held until it is popped, whatever its
\* value, so a node with infinite h is returned only when no node with finite h is held.
C40_GreedyPopsSmallestH ==
    (pc = "without_cache" /\ algorithm.type = "GREEDY" /\ heuristic # "NONE") =>
        /\ { pushed[i] : i \in DOMAIN pushed } \subseteq
               Held(algorithm) \cup { expanded_nodes[i] : i \in DOMAIN expanded_nodes }
        /\ has_next(algorithm) => get_next(algorithm).item \in Held(algorithm)
        /\ Cardinality(Held(algorithm)) > 1 =>
               LET hv   == [ j \in Held(algorithm) |-> calculate(heuristic, nodes[j].state) ]
                   item == get_next(algorithm).item
               IN  /\ \A i \in DOMAIN algorithm.nodes :
                          algorithm.nodes[i][1] = hv[algorithm.nodes[i][2]]
                   /\ \A j \in Held(algorithm) : hv[item] <= hv[j]
                   /\ hv[item] = np_inf => \A j \in Held(algorithm) : hv[j] = np_inf

\* the Greedy frontier holds a node with infinite h behind a node with finite h, and
\* nodes have been popped before
C40_Witness ==
    /\ pc = "without_cache"
    /\ algorithm.type = "GREEDY"
    /\ heuristic # "NONE"
    /\ nodes_expanded > 1
    /\ \E i, j \in Held(algorithm) :
           /\ calculate(heuristic, nodes[i].state) = np_inf
           /\ calculate(heuristic, nodes[j].state) < np_inf
           /\ get_next(algorithm).item = j

====
